---- MODULE Spec2Model ----
(***************************************************************************)
(* Live match event log and broadcast hub of the billiards backend:        *)
(* api/models.py (Match, Frame, MatchEvent and the projections),           *)
(* api/consumers.py (LiveMatchConsumer, BiroMatchAdminConsumer),           *)
(* api/utils.py (credential resolution) and the frame endpoint of          *)
(* api/views.py.                                                           *)
(***************************************************************************)
EXTENDS Integers, Sequences, FiniteSets, TLC

\* ----------------------------------------------------------------- bounds
\* frames that may exist in the store
MaxFrames == 4
\* largest frames_to_win a match is given
MaxFramesToWin == 5
\* events that may ever be created (ids are never reused)
MaxEvents == 3
\* commands received in a run of the single-scorekeeper specification
MaxCmds == 2
\* commands received in a run of the two-scorekeeper specification
MaxHubCmds == 2
\* frame commands received in a run of the frame-lifecycle specification
MaxGateCmds == 1
\* frame commands received in a run of the repeated-attempt specification
MaxRegateCmds == 3
\* largest value of the wall clock that stamps events
MaxClock == 1
\* frame commands received in a run of the two-scorekeeper frame specification
MaxRaceCmds == 2
\* commands received in a run of the event-log specification
MaxProjCmds == 2
\* commands received in a run of the two-match specification
MaxCrossCmds == 2
\* commands received in a run of the two-room specification
MaxScopeCmds == 2
\* commands received in a run of the spectator-input specification
MaxWatchCmds == 1
\* messages a spectator session is sent in a run of that specification
MaxWatchSent == 3
\* commands received in a run of the frame-field specification
MaxFieldCmds == 2
\* commands received in a run of the match-field specification
MaxMatchCmds == 2
\* commands received in a run of the potted-ball specification
MaxBallCmds == 2

\* ------------------------------------------------------------ store data
NoId == 0
\* match_date is nullable: no date
NoDate == 0
Matches == {1, 2}
\* profiles 1 and 2 play every match, profile 3 plays none
Profiles == {1, 2, 3}
\* an id that resolves to no Profile row
BadProfile == 9
Player1(m) == 1
Player2(m) == 2

Biros == {"b1", "b2"}
Spectators == {"v1", "v2"}
Sessions == Biros \cup Spectators

BALL_GROUP_FULL == "full"
BALL_GROUP_STRIPED == "striped"
BALLS_POTTED == "balls_potted"
NEXT_PLAYER == "next_player"
FAUL == "faul"

VARIABLES
    frames_to_win,  \* Match.frames_to_win of every match
    match_date,     \* Match.match_date of every match
    frames,         \* the Frame rows, by id: frames[i] is the frame with id i
    events,         \* the MatchEvent rows: a function from the ids that exist
    next_event_id,  \* the autoincrement id given to the next MatchEvent
    now,            \* the last reading of the wall clock behind auto_now_add
    groups,         \* the channel layer's groups: group name -> channels in it
    session,        \* every connection: its status, match and pending work
    queue,          \* the channel layer's queue of every connection
    sent,           \* what every connection wrote to its client, in order
    applied,        \* history: the commands run against the store, in order,
                    \* each with its result and the rows it found
    http            \* the response of the last HTTP frame creation

vars == <<frames_to_win, match_date, frames, events, next_event_id, now, groups, session,
          queue, sent, applied, http>>

store == <<frames_to_win, match_date, frames, events, next_event_id>>

\* ------------------------------------------------------------- helpers
Max(a, b) == IF a >= b THEN a ELSE b

SeqToSet(s) == {s[i] : i \in 1..Len(s)}

MatchGroup(m) == <<"match", m>>
BiroGroup(m) == <<"biro_match", m>>
GroupNames == {MatchGroup(m) : m \in Matches} \cup {BiroGroup(m) : m \in Matches}

FrameIds == 1..Len(frames)

NewFrame(m, number, winner) ==
    [match |-> m, frame_number |-> number, winner |-> winner,
     player1_ball_group |-> "", player2_ball_group |-> "", events |-> {}]

MatchFrames(m) == {f \in FrameIds : frames[f].match = m}

NoPend == [action |-> "none", ok |-> FALSE, message |-> "", cmd |-> 0, data |-> <<>>]

\* A message as a client or a channel sees it. The payload of an update or an
\* acknowledgement is stood for by cmd: the position in `applied` of the
\* command whose result it carries. A match_state carries the serialized
\* match in `message`, and in cmd the number of commands it was read after.

\* token is the credential the client presented ("-" before it connects, and
\* for a spectator, who presents none); code is the close code of a rejection
NewSession == [st |-> "new", match |-> NoId, pend |-> NoPend, code |-> 0, token |-> "-"]

Msg(type, success, message, cmd) ==
    [type |-> type, success |-> success, message |-> message, cmd |-> cmd]

\* MatchSerializer: the match with its frames and each frame's events
MatchData(m) ==
    [id |-> m, player1 |-> Player1(m), player2 |-> Player2(m),
     match_date |-> match_date[m], frames_to_win |-> frames_to_win[m],
     match_frames |-> [f \in MatchFrames(m) |->
        [frame |-> frames[f],
         events |-> [e \in frames[f].events \cap DOMAIN events |-> events[e]]]]]

\* faulty variant: the message is queued for every channel of every match room
GroupSendEveryRoom(g, msg) ==
    [s \in Sessions |->
        IF \E m \in Matches : s \in groups[MatchGroup(m)]
        THEN Append(queue[s], msg) ELSE queue[s]]

\* channel_layer.group_send: the message is queued for every channel of the group
GroupSend(g, msg) ==
    [s \in Sessions |-> IF s \in groups[g] THEN Append(queue[s], msg) ELSE queue[s]]

\* ------------------------------------------------- credential resolution
\* the credentials a client may put in the query string: none at all, an
\* empty one, one no user owns, one of a user without a Profile, one of a
\* Profile without is_biro, one of a biro
Tokens == {"absent", "", "forged", "t_user", "t_player", "t_biro"}

\* AccessToken(token)['user_id'] and User.objects.get: the user, or None
get_user_from_token(token) ==
    CASE token = "t_user" -> 10
      [] token = "t_player" -> 11
      [] token = "t_biro" -> 12
      [] OTHER -> NoId

\* Profile.objects.get(user=user): the profile, or None
get_profile_from_token(token) ==
    LET user == get_user_from_token(token)
    IN  IF user # NoId
        THEN CASE user = 11 -> [id |-> 3, is_biro |-> FALSE]
               [] user = 12 -> [id |-> 4, is_biro |-> TRUE]
               [] OTHER -> [id |-> NoId, is_biro |-> FALSE]
        ELSE [id |-> NoId, is_biro |-> FALSE]

\* faulty variant: the is_biro flag of the profile is not looked at
ConnectCloseCodeAnyProfile(token) ==
    IF token \in {"absent", ""} THEN 4001
    ELSE IF get_profile_from_token(token).id = NoId THEN 4003
    ELSE 0

\* the close code connect() rejects the credential with, 0 when it accepts
ConnectCloseCode(token) ==
    IF token \in {"absent", ""} THEN 4001
    ELSE LET profile == get_profile_from_token(token)
         IN  IF profile.id = NoId THEN 4003
             ELSE IF ~profile.is_biro THEN 4003
             ELSE 0

\* ---------------------------------------------------- spectator sessions
\* LiveMatchConsumer.connect up to accept(): join the match group
SpectatorConnect(s, m) ==
    /\ s \in Spectators
    /\ session[s].st = "new"
    /\ groups' = [groups EXCEPT ![MatchGroup(m)] = @ \cup {s}]
    /\ session' = [session EXCEPT ![s].st = "joined", ![s].match = m]
    /\ UNCHANGED <<store, now, queue, sent, applied, http>>

\* the rest of connect(): read the match and send it as match_state
SendMatchState(s) ==
    /\ session[s].st = "joined"
    /\ sent' = [sent EXCEPT ![s] =
            Append(@, Msg("match_state", "", MatchData(session[s].match), Len(applied)))]
    /\ session' = [session EXCEPT ![s].st = "open"]
    /\ UNCHANGED <<store, now, groups, queue, applied, http>>

\* faulty variant: a group message is forwarded while connect() is still running
DeliverWhileConnecting(s) ==
    /\ s \in Spectators
    /\ session[s].st \in {"joined", "open"}
    /\ queue[s] # <<>>
    /\ sent' = [sent EXCEPT ![s] = Append(@, Head(queue[s]))]
    /\ queue' = [queue EXCEPT ![s] = Tail(@)]
    /\ UNCHANGED <<store, now, groups, session, applied, http>>

\* the group message handlers: forward the message to the client. The
\* consumer handles one message at a time, so a group message waits in the
\* channel until connect() has returned.
Deliver(s) ==
    /\ s \in Spectators
    /\ session[s].st = "open"
    /\ queue[s] # <<>>
    /\ sent' = [sent EXCEPT ![s] = Append(@, Head(queue[s]))]
    /\ queue' = [queue EXCEPT ![s] = Tail(@)]
    /\ UNCHANGED <<store, now, groups, session, applied, http>>

\* what a spectator client may send: the ping object, another JSON object,
\* text that is not JSON, JSON that is not an object (a list, a number, a
\* string, null)
SpectatorInputs == {"ping", "object", "invalid_json", "not_object"}

\* LiveMatchConsumer.receive: a ping is answered; another object and text
\* that json.loads refuses are dropped. JSON that is not an object has no
\* get(): the AttributeError is not a JSONDecodeError, so it leaves receive
\* and ends the consumer: the socket is closed by the server, and disconnect()
\* is not run, so the channel stays in the group.
SpectatorReceive(s, text) ==
    /\ s \in Spectators
    /\ session[s].st = "open"
    /\ text \in SpectatorInputs
    /\ sent' = [sent EXCEPT ![s] =
            IF text = "ping" THEN Append(@, Msg("pong", "", "", 0)) ELSE @]
    /\ session' = [session EXCEPT ![s].st =
            IF text = "not_object" THEN "crashed" ELSE @]
    /\ UNCHANGED <<store, now, groups, queue, applied, http>>

\* disconnect of either consumer: leave the group joined in connect
Disconnect(s) ==
    /\ session[s].st = "open"
    /\ groups' = [g \in GroupNames |->
            IF g = (IF s \in Spectators THEN MatchGroup(session[s].match)
                    ELSE BiroGroup(session[s].match))
            THEN groups[g] \ {s} ELSE groups[g]]
    /\ session' = [session EXCEPT ![s].st = "closed"]
    /\ UNCHANGED <<store, now, queue, sent, applied, http>>

\* --------------------------------------------------- scorekeeper sessions
\* BiroMatchAdminConsumer.connect up to accept(): check the credential, then
\* join the biro group of the match
BiroConnect(s, m, token) ==
    /\ s \in Biros
    /\ session[s].st = "new"
    /\ LET code == ConnectCloseCode(token)
       IN  IF code # 0
           THEN /\ session' = [session EXCEPT ![s].st = "rejected", ![s].code = code,
                                               ![s].token = token]
                /\ UNCHANGED groups
           ELSE /\ session' = [session EXCEPT ![s].st = "joined", ![s].match = m,
                                               ![s].token = token]
                /\ groups' = [groups EXCEPT ![BiroGroup(m)] = @ \cup {s}]
    /\ UNCHANGED <<store, now, queue, sent, applied, http>>

\* ------------------------------------------------ frame lifecycle policy
\* faulty variant: the wins are counted over the frames of every match
player_wins_any_match(m, player) ==
    Cardinality({f \in FrameIds : frames[f].winner = player})

\* match.match_frames.filter(winner=player).count()
player_wins(m, player) ==
    Cardinality({f \in MatchFrames(m) : frames[f].winner = player})

\* faulty variant: a strict majority of the frames is needed
frames_needed_to_win_majority(total_frames) == total_frames \div 2 + 1

\* frames_needed_to_win = (total_frames + 1) // 2
frames_needed_to_win(total_frames) == (total_frames + 1) \div 2

\* faulty variant: the draw is checked before the win
FrameGateDrawFirst(m) ==
    LET player1_wins == player_wins(m, Player1(m))
        player2_wins == player_wins(m, Player2(m))
        total_frames == frames_to_win[m]
    IN  IF total_frames % 2 = 0 /\ player1_wins + player2_wins >= total_frames
        THEN "draw"
        ELSE IF \/ player1_wins >= frames_needed_to_win(total_frames)
                \/ player2_wins >= frames_needed_to_win(total_frames)
        THEN "decided"
        ELSE "allow"

\* the two checks of create_frame before Frame.objects.create: "decided",
\* "draw", or "allow"
FrameGate(m) ==
    LET player1_wins == player_wins(m, Player1(m))
        player2_wins == player_wins(m, Player2(m))
        total_frames == frames_to_win[m]
    IN  IF \/ player1_wins >= frames_needed_to_win(total_frames)
           \/ player2_wins >= frames_needed_to_win(total_frames)
        THEN "decided"
        ELSE IF total_frames % 2 = 0 /\ player1_wins + player2_wins >= total_frames
        THEN "draw"
        ELSE "allow"

\* the same two checks in the HTTP endpoint biro_frames (POST), with the
\* error text each answers
HttpFrameGate(m) ==
    LET player1_wins == player_wins(m, Player1(m))
        player2_wins == player_wins(m, Player2(m))
        total_frames == frames_to_win[m]
    IN  IF \/ player1_wins >= frames_needed_to_win(total_frames)
           \/ player2_wins >= frames_needed_to_win(total_frames)
        THEN "Match is already decided - winner declared"
        ELSE IF total_frames % 2 = 0 /\ player1_wins + player2_wins >= total_frames
        THEN "Match ended in draw"
        ELSE ""

\* ------------------------------------------------------- store functions
\* what a store function hands back: its result (None and success False are
\* ok = FALSE) and the rows it leaves behind
Result(ok, message, data, fr, ev) ==
    [ok |-> ok, message |-> message, data |-> data, frames |-> fr, events |-> ev]

Failure(message) == Result(FALSE, message, <<>>, frames, events)

\* faulty variant: a frame that held one of the events loses all its events
DeleteEventsClearing(fr, ids) ==
    [f \in 1..Len(fr) |->
        [fr[f] EXCEPT !.events = IF @ \cap ids # {} THEN {} ELSE @]]

\* frame.events.remove(event); event.delete(): the row goes, and with it its
\* membership in every frame
DeleteEvents(fr, ids) ==
    [f \in 1..Len(fr) |-> [fr[f] EXCEPT !.events = @ \ ids]]

\* faulty variant: the rows are kept and marked as removed
DropEventsMarking(ev, ids) ==
    [e \in DOMAIN ev |-> IF e \in ids THEN [ev[e] EXCEPT !.eventType = "removed"] ELSE ev[e]]

DropEvents(ev, ids) == [e \in DOMAIN ev \ ids |-> ev[e]]

\* create_match_event: the event is created first, stamped with the clock
\* reading `timestamp`, and the frame is looked up after
create_match_event(eventType, ball_ids, frame_id, timestamp, fault) ==
    IF fault THEN Failure("")
    ELSE LET event == [eventType |-> eventType, ball_ids |-> ball_ids,
                       timestamp |-> timestamp]
             ev == events @@ (next_event_id :> event)
         IN  IF frame_id # NoId
             THEN IF frame_id \in FrameIds
                  THEN Result(TRUE, "", [event_id |-> next_event_id],
                              [frames EXCEPT ![frame_id].events = @ \cup {next_event_id}], ev)
                  ELSE Result(FALSE, "", <<>>, frames, ev)
             ELSE Result(TRUE, "", [event_id |-> next_event_id], frames, ev)

\* faulty variant: the answer of the gate is kept from the first start_frame of the
\* match and reused by the later ones
create_frame_cached(m, frame_number, fault) ==
    LET earlier == {i \in 1..Len(applied) :
                        applied[i].action = "start_frame" /\ applied[i].match = m}
        allow == IF earlier = {} THEN FrameGate(m) = "allow"
                 ELSE applied[CHOOSE i \in earlier : \A j \in earlier : i <= j].ok
    IN  IF fault \/ ~allow THEN Failure("")
        ELSE Result(TRUE, "", [frame_id |-> Len(frames) + 1],
                    Append(frames, NewFrame(m, Cardinality(MatchFrames(m)) + 1, NoId)), events)

\* create_frame: the gate, then Frame.objects.create
create_frame(m, frame_number, fault) ==
    IF fault THEN Failure("")
    ELSE IF FrameGate(m) # "allow" THEN Failure("")
    ELSE LET number == IF frame_number = NoId
                       THEN Cardinality(MatchFrames(m)) + 1 ELSE frame_number
         IN  Result(TRUE, "", [frame_id |-> Len(frames) + 1],
                    Append(frames, NewFrame(m, number, NoId)), events)

\* faulty variant: a winner who is not a player of the frame's match is refused
end_frame_players_only(frame_id, winner_id, fault) ==
    IF fault \/ frame_id \notin FrameIds THEN Failure("")
    ELSE IF winner_id # NoId
         THEN IF winner_id \in {Player1(frames[frame_id].match), Player2(frames[frame_id].match)}
              THEN Result(TRUE, "", [frame_id |-> frame_id],
                          [frames EXCEPT ![frame_id].winner = winner_id], events)
              ELSE Failure("")
         ELSE Result(TRUE, "", [frame_id |-> frame_id], frames, events)

\* end_frame: the frame is looked up by id alone; a winner is set when given
end_frame(frame_id, winner_id, fault) ==
    IF fault \/ frame_id \notin FrameIds THEN Failure("")
    ELSE IF winner_id # NoId
         THEN IF winner_id \in Profiles
              THEN Result(TRUE, "", [frame_id |-> frame_id],
                          [frames EXCEPT ![frame_id].winner = winner_id], events)
              ELSE Failure("")
         ELSE Result(TRUE, "", [frame_id |-> frame_id], frames, events)

\* faulty variant: the event is looked for in the frames of every match
remove_match_event_any_match(m, event_id, fault) ==
    IF fault THEN Failure("store fault")
    ELSE IF event_id \notin DOMAIN events THEN Failure("Event not found")
    ELSE LET in_any == {f \in FrameIds : event_id \in frames[f].events}
         IN  IF in_any = {} THEN Failure("Event not found in this match")
             ELSE Result(TRUE, "", [event_id |-> event_id, frame_ids |-> in_any],
                         DeleteEvents(frames, {event_id}), DropEvents(events, {event_id}))

\* remove_match_event
remove_match_event(m, event_id, fault) ==
    IF fault THEN Failure("store fault")
    ELSE IF event_id \notin DOMAIN events THEN Failure("Event not found")
    ELSE LET in_match == {f \in MatchFrames(m) : event_id \in frames[f].events}
         IN  IF in_match = {} THEN Failure("Event not found in this match")
             ELSE Result(TRUE, "", [event_id |-> event_id, frame_ids |-> in_match],
                         DeleteEvents(frames, {event_id}), DropEvents(events, {event_id}))

\* frame.events.order_by('-timestamp').first(): an event of the frame with no
\* later one; which of several with the same timestamp is the store's choice
LastEvents(frame_id) ==
    {e \in frames[frame_id].events :
        \A o \in frames[frame_id].events : events[o].timestamp <= events[e].timestamp}

\* faulty variant: with no event to undo the call reports success
undo_last_event_lenient(m, frame_id, last, fault) ==
    IF fault THEN Failure("store fault")
    ELSE IF frame_id \notin MatchFrames(m) THEN Failure("Frame not found")
    ELSE IF frames[frame_id].events = {}
         THEN Result(TRUE, "Last event undone", [frame_id |-> frame_id], frames, events)
    ELSE Result(TRUE, "Last event undone",
                [event_id |-> last, frame_id |-> frame_id, event_type |-> events[last].eventType],
                DeleteEvents(frames, {last}), DropEvents(events, {last}))

\* undo_last_event, for the event `last` that first() returned
undo_last_event(m, frame_id, last, fault) ==
    IF fault THEN Failure("store fault")
    ELSE IF frame_id \notin MatchFrames(m) THEN Failure("Frame not found")
    ELSE IF frames[frame_id].events = {} THEN Failure("No events to undo in this frame")
    ELSE Result(TRUE, "Last event undone",
                [event_id |-> last, frame_id |-> frame_id, event_type |-> events[last].eventType],
                DeleteEvents(frames, {last}), DropEvents(events, {last}))

\* an element of event_ids that is no number (a string such as "x", a list,
\* an object): MatchEvent.objects.get(id=...) raises ValueError for it
Malformed == -1

\* the loop of remove_events_from_frame over event_ids: the ids removed, in
\* order; an id that no longer exists or is not in the frame is skipped. The
\* loop catches MatchEvent.DoesNotExist only, so it ends at the first id that
\* is no number, with the events before it already deleted.
RECURSIVE RemovedEvents(_, _, _)
RemovedEvents(frame_id, event_ids, gone) ==
    IF event_ids = <<>> \/ Head(event_ids) = Malformed THEN <<>>
    ELSE LET event_id == Head(event_ids)
         IN  IF /\ event_id \in DOMAIN events \ gone
                /\ event_id \in frames[frame_id].events
             THEN <<event_id>> \o RemovedEvents(frame_id, Tail(event_ids), gone \cup {event_id})
             ELSE RemovedEvents(frame_id, Tail(event_ids), gone)

\* remove_events_from_frame
remove_events_from_frame(m, frame_id, event_ids, fault) ==
    IF fault THEN Failure("store fault")
    ELSE IF frame_id \notin MatchFrames(m) THEN Failure("Frame not found")
    ELSE LET removed_events == RemovedEvents(frame_id, event_ids, {})
             fr == DeleteEvents(frames, SeqToSet(removed_events))
             ev == DropEvents(events, SeqToSet(removed_events))
         IN  IF Malformed \in SeqToSet(event_ids)
             THEN Result(FALSE, "Field 'id' expected a number", <<>>, fr, ev)
             ELSE Result(TRUE, "",
                         [frame_id |-> frame_id, removed_event_ids |-> removed_events,
                          count |-> Len(removed_events)], fr, ev)

\* faulty variant: the events are detached from the frame but not deleted
clear_frame_events_detach(m, frame_id, fault) ==
    IF fault THEN Failure("store fault")
    ELSE IF frame_id \notin MatchFrames(m) THEN Failure("Frame not found")
    ELSE LET event_ids == frames[frame_id].events
         IN  Result(TRUE, "",
                    [frame_id |-> frame_id, cleared_event_ids |-> event_ids,
                     count |-> Cardinality(event_ids)],
                    DeleteEvents(frames, event_ids), events)

\* clear_frame_events
clear_frame_events(m, frame_id, fault) ==
    IF fault THEN Failure("store fault")
    ELSE IF frame_id \notin MatchFrames(m) THEN Failure("Frame not found")
    ELSE LET event_ids == frames[frame_id].events
         IN  Result(TRUE, "",
                    [frame_id |-> frame_id, cleared_event_ids |-> event_ids,
                     count |-> Cardinality(event_ids)],
                    DeleteEvents(frames, event_ids), DropEvents(events, event_ids))

\* the ball groups a client may send: none, the two valid ones, an invalid one
GroupInputs == {"", BALL_GROUP_FULL, BALL_GROUP_STRIPED, "solid"}

\* faulty variant: a group that is present is stored without being validated
set_frame_ball_groups_unvalidated(m, frame_id, player1_group, player2_group, fault) ==
    IF fault \/ frame_id \notin MatchFrames(m) THEN Failure("")
    ELSE LET g1 == IF player1_group # ""
                   THEN player1_group ELSE frames[frame_id].player1_ball_group
             g2 == IF player2_group # ""
                   THEN player2_group ELSE frames[frame_id].player2_ball_group
         IN  Result(TRUE, "", [frame_id |-> frame_id],
                    [frames EXCEPT ![frame_id].player1_ball_group = g1,
                                   ![frame_id].player2_ball_group = g2], events)

\* set_frame_ball_groups
set_frame_ball_groups(m, frame_id, player1_group, player2_group, fault) ==
    IF fault \/ frame_id \notin MatchFrames(m) THEN Failure("")
    ELSE LET valid_groups == {BALL_GROUP_FULL, BALL_GROUP_STRIPED}
             g1 == IF player1_group # "" /\ player1_group \in valid_groups
                   THEN player1_group ELSE frames[frame_id].player1_ball_group
             g2 == IF player2_group # "" /\ player2_group \in valid_groups
                   THEN player2_group ELSE frames[frame_id].player2_ball_group
         IN  Result(TRUE, "", [frame_id |-> frame_id],
                    [frames EXCEPT ![frame_id].player1_ball_group = g1,
                                   ![frame_id].player2_ball_group = g2], events)

\* Absent is a key not in the updates
Absent == -1
\* a value the column refuses when the row is saved (text that is no number
\* or no date, a negative frames_to_win, null for frames_to_win)
Invalid == -2

\* faulty variant: a field whose key is absent is reset to its default
update_match_overwrite(m, new_frames_to_win, new_match_date, fault) ==
    IF fault \/ new_frames_to_win = Invalid \/ new_match_date = Invalid
    THEN [ok |-> FALSE, frames_to_win |-> frames_to_win, match_date |-> match_date]
    ELSE [ok |-> TRUE,
          frames_to_win |-> [frames_to_win EXCEPT ![m] =
                IF new_frames_to_win # Absent THEN new_frames_to_win ELSE 5],
          match_date |-> [match_date EXCEPT ![m] =
                IF new_match_date # Absent THEN new_match_date ELSE NoDate]]

\* update_match: match_date and frames_to_win are assigned when their key is
\* in the updates, then the match is saved; a value the column refuses makes
\* save() raise, and nothing is written
update_match(m, new_frames_to_win, new_match_date, fault) ==
    IF fault \/ new_frames_to_win = Invalid \/ new_match_date = Invalid
    THEN [ok |-> FALSE, frames_to_win |-> frames_to_win, match_date |-> match_date]
    ELSE [ok |-> TRUE,
          frames_to_win |-> IF new_frames_to_win # Absent
                            THEN [frames_to_win EXCEPT ![m] = new_frames_to_win]
                            ELSE frames_to_win,
          match_date |-> IF new_match_date # Absent
                         THEN [match_date EXCEPT ![m] = new_match_date]
                         ELSE match_date]

\* ------------------------------------------------------ frame projections
\* models.balls: the ids of the balls, in the order of the list
balls ==
    <<"cue", "1", "2", "3", "4", "5", "6", "7", "8",
      "9", "10", "11", "12", "13", "14", "15">>

\* frame.events.all().order_by('timestamp') on the rows fr (frames) and ev
\* (events): the events of frame f by non-decreasing timestamp. Events with
\* the same timestamp come in an order the database picks, so this is the set
\* of the sequences the query may return.
OrderedEvents(fr, ev, f) ==
    LET ids == fr[f].events
        n == Cardinality(ids)
    IN  {q \in [1..n -> ids] :
            /\ \A i, j \in 1..n : i # j => q[i] # q[j]
            /\ \A i \in 1..(n - 1) : ev[q[i]].timestamp <= ev[q[i + 1]].timestamp}

\* a Python dict as the sequence of its <<key, value>> items, in insertion
\* order: d[key] = value replaces the value of a key the dict has and adds
\* any other key at the end
DictSet(d, key, value) ==
    IF \E i \in 1..Len(d) : d[i][1] = key
    THEN [i \in 1..Len(d) |-> IF d[i][1] = key THEN <<key, value>> ELSE d[i]]
    ELSE Append(d, <<key, value>>)

\* faulty variant: potting a ball that is off the table puts it back
RECURSIVE PotBallsToggle(_, _)
PotBallsToggle(balls_on_table, ball_ids) ==
    IF ball_ids = <<>> THEN balls_on_table
    ELSE LET b == Head(ball_ids)
             was == IF \E i \in 1..Len(balls_on_table) : balls_on_table[i][1] = b
                    THEN \E i \in 1..Len(balls_on_table) :
                            balls_on_table[i][1] = b /\ balls_on_table[i][2]
                    ELSE TRUE
         IN  PotBallsToggle(DictSet(balls_on_table, b, ~was), Tail(ball_ids))

\* for ball_id in event.ball_ids: balls_on_table[ball_id] = False
RECURSIVE PotBalls(_, _)
PotBalls(balls_on_table, ball_ids) ==
    IF ball_ids = <<>> THEN balls_on_table
    ELSE PotBalls(DictSet(balls_on_table, Head(ball_ids), FALSE), Tail(ball_ids))

\* the loop of get_balls_on_table over the events `q`, an ordering of event ids
RECURSIVE BallsAfter(_, _, _)
BallsAfter(balls_on_table, ev, q) ==
    IF q = <<>> THEN balls_on_table
    ELSE LET event == ev[Head(q)]
         IN  BallsAfter(IF event.eventType = BALLS_POTTED /\ event.ball_ids # <<>>
                        THEN PotBalls(balls_on_table, event.ball_ids)
                        ELSE balls_on_table,
                        ev, Tail(q))

\* faulty variant: the cue ball starts on the table with the others
get_balls_on_table_with_cue(ev, q) ==
    LET initial == [i \in 1..Len(balls) |-> <<balls[i], TRUE>>]
        balls_on_table == BallsAfter(initial, ev, q)
        on_table == SelectSeq(balls_on_table, LAMBDA item : item[2])
    IN  [i \in 1..Len(on_table) |-> on_table[i][1]]

\* Frame.get_balls_on_table, for the events in the order q the query gave:
\* the keys of the dict whose value is still True, in the order of the dict
get_balls_on_table(ev, q) ==
    LET without_cue == SelectSeq(balls, LAMBDA b : b # "cue")
        initial == [i \in 1..Len(without_cue) |-> <<without_cue[i], TRUE>>]
        balls_on_table == BallsAfter(initial, ev, q)
        on_table == SelectSeq(balls_on_table, LAMBDA item : item[2])
    IN  [i \in 1..Len(on_table) |-> on_table[i][1]]

\* faulty variant: a next_player event only separates the turns and is in none
RECURSIVE TurnsLoopSeparator(_, _, _, _)
TurnsLoopSeparator(turns, current_turn, ev, q) ==
    IF q = <<>>
    THEN IF current_turn # <<>> THEN Append(turns, current_turn) ELSE turns
    ELSE IF ev[Head(q)].eventType = NEXT_PLAYER
         THEN TurnsLoopSeparator(IF current_turn # <<>> THEN Append(turns, current_turn)
                                 ELSE turns, <<>>, ev, Tail(q))
         ELSE TurnsLoopSeparator(turns, Append(current_turn, Head(q)), ev, Tail(q))

\* faulty variant: a next_player event is the last event of the turn it ends
RECURSIVE TurnsLoopClosing(_, _, _, _)
TurnsLoopClosing(turns, current_turn, ev, q) ==
    IF q = <<>>
    THEN IF current_turn # <<>> THEN Append(turns, current_turn) ELSE turns
    ELSE IF ev[Head(q)].eventType = NEXT_PLAYER
         THEN TurnsLoopClosing(Append(turns, Append(current_turn, Head(q))), <<>>, ev, Tail(q))
         ELSE TurnsLoopClosing(turns, Append(current_turn, Head(q)), ev, Tail(q))

\* the loop of return_events_as_turns over the events q, and the append of
\* the last turn after it
RECURSIVE TurnsLoop(_, _, _, _)
TurnsLoop(turns, current_turn, ev, q) ==
    IF q = <<>>
    THEN IF current_turn # <<>> THEN Append(turns, current_turn) ELSE turns
    ELSE IF ev[Head(q)].eventType = NEXT_PLAYER /\ current_turn # <<>>
         THEN TurnsLoop(Append(turns, current_turn), <<Head(q)>>, ev, Tail(q))
         ELSE TurnsLoop(turns, Append(current_turn, Head(q)), ev, Tail(q))

\* Frame.return_events_as_turns, for the events in the order q the query
\* gave: the turns, each the sequence of its events (by id)
return_events_as_turns(ev, q) == TurnsLoop(<<>>, <<>>, ev, q)

\* ------------------------------------------- BiroMatchAdminConsumer.receive
\* faulty variant: the result is sent to the match group whether or not the command
\* succeeded
ReceiveRepliesAlwaysBroadcast(pend) ==
    [broadcast |-> IF pend.action = "create_event" THEN "event_created" ELSE "frame_update",
     ack |-> "", success |-> "", message |-> pend.message]

\* faulty variant: end_frame is broadcast as a match_update, and start_frame
\* is not broadcast
ReceiveRepliesMistyped(pend) ==
    LET a == pend.action
    IN  IF pend.ok
        THEN [broadcast |->
                CASE a = "create_event" -> "event_created"
                  [] a = "set_ball_groups" -> "frame_update"
                  [] a \in {"update_match", "end_frame"} -> "match_update"
                  [] a \in {"remove_event", "undo_last_event"} -> "event_removed"
                  [] a = "remove_events_from_frame" -> "events_removed"
                  [] a = "clear_frame_events" -> "frame_events_cleared"
                  [] OTHER -> "",
              ack |-> "", success |-> "true", message |-> pend.message]
        ELSE [broadcast |-> "", ack |-> "", success |-> "", message |-> pend.message]

\* faulty variant: text that is no command is dropped without an answer
ReceiveRepliesSilentOnGarbage(pend) ==
    IF pend.action \in {"invalid_json", "not_object"}
    THEN [broadcast |-> "", ack |-> "", success |-> "", message |-> ""]
    ELSE [broadcast |-> IF pend.ok THEN "frame_update" ELSE "",
          ack |-> IF pend.ok THEN "event_created" ELSE "error",
          success |-> "", message |-> "failed"]

\* the branch of receive for a command: the type it broadcasts to the match
\* group and the acknowledgement it sends to the issuing socket ("" is none)
ReceiveReplies(pend) ==
    LET a == pend.action
    IN  IF pend.ok
        THEN [broadcast |->
                CASE a = "create_event" -> "event_created"
                  [] a \in {"start_frame", "end_frame", "set_ball_groups"} -> "frame_update"
                  [] a = "update_match" -> "match_update"
                  [] a \in {"remove_event", "undo_last_event"} -> "event_removed"
                  [] a = "remove_events_from_frame" -> "events_removed"
                  [] a = "clear_frame_events" -> "frame_events_cleared"
                  [] OTHER -> "",
              ack |->
                CASE a = "create_event" -> "event_created"
                  [] a \in {"remove_event", "undo_last_event"} -> "event_removed"
                  [] a = "remove_events_from_frame" -> "events_removed"
                  [] a = "clear_frame_events" -> "frame_events_cleared"
                  [] a = "set_ball_groups" -> "ball_groups_set"
                  [] OTHER -> "",
              success |-> "true",
              message |-> pend.message]
        ELSE [broadcast |-> "",
              ack |->
                CASE a \in {"remove_event", "undo_last_event", "remove_events_from_frame",
                            "clear_frame_events", "set_ball_groups",
                            "invalid_json", "not_object"} -> "error"
                  [] OTHER -> "",
              success |-> "",
              message |->
                CASE a = "set_ball_groups" -> "Failed to set ball groups"
                  [] a = "invalid_json" -> "Invalid JSON"
                  [] a = "not_object" -> "object has no attribute 'get'"
                  [] OTHER -> pend.message]

CanReceive(s) ==
    /\ s \in Biros
    /\ session[s].st = "open"

\* the store function of the command has run: receive holds its result and
\* has the group_send and the send still to do
Applied(s, action, ok, message, data) ==
    /\ applied' = Append(applied,
            [session |-> s, match |-> session[s].match, action |-> action, ok |-> ok,
             data |-> data, before |-> [frames |-> frames, events |-> events]])
    /\ session' = [session EXCEPT ![s].st = "busy",
            ![s].pend = [action |-> action, ok |-> ok, message |-> message,
                         cmd |-> Len(applied) + 1, data |-> data]]

ApplyResult(s, action, r) ==
    /\ frames' = r.frames
    /\ events' = r.events
    /\ Applied(s, action, r.ok, r.message, r.data)

ReceiveCreateEvent(s, eventType, ball_ids, frame_id, timestamp, fault) ==
    /\ CanReceive(s)
    /\ next_event_id <= MaxEvents
    /\ timestamp \in now..MaxClock
    /\ ApplyResult(s, "create_event",
                   create_match_event(eventType, ball_ids, frame_id, timestamp, fault))
    /\ next_event_id' = IF fault THEN next_event_id ELSE next_event_id + 1
    /\ now' = IF fault THEN now ELSE timestamp
    /\ UNCHANGED <<frames_to_win, match_date, groups, queue, sent, http>>

ReceiveStartFrame(s, frame_number, fault) ==
    /\ CanReceive(s)
    /\ create_frame(session[s].match, frame_number, fault).ok => Len(frames) < MaxFrames
    /\ ApplyResult(s, "start_frame", create_frame(session[s].match, frame_number, fault))
    /\ UNCHANGED <<frames_to_win, match_date, next_event_id, now, groups, queue, sent, http>>

ReceiveEndFrame(s, frame_id, winner_id, fault) ==
    /\ CanReceive(s)
    /\ ApplyResult(s, "end_frame", end_frame(frame_id, winner_id, fault))
    /\ UNCHANGED <<frames_to_win, match_date, next_event_id, now, groups, queue, sent, http>>

ReceiveUpdateMatch(s, new_frames_to_win, new_match_date, fault) ==
    /\ CanReceive(s)
    /\ LET r == update_match(session[s].match, new_frames_to_win, new_match_date, fault)
       IN  /\ frames_to_win' = r.frames_to_win
           /\ match_date' = r.match_date
           /\ Applied(s, "update_match", r.ok, "", <<>>)
    /\ UNCHANGED <<frames, events, next_event_id, now, groups, queue, sent, http>>

ReceiveRemoveEvent(s, event_id, fault) ==
    /\ CanReceive(s)
    /\ ApplyResult(s, "remove_event", remove_match_event(session[s].match, event_id, fault))
    /\ UNCHANGED <<frames_to_win, match_date, next_event_id, now, groups, queue, sent, http>>

ReceiveUndoLastEvent(s, frame_id, fault) ==
    /\ CanReceive(s)
    /\ \E last \in (IF frame_id \in FrameIds /\ frames[frame_id].events # {}
                    THEN LastEvents(frame_id) ELSE {NoId}) :
          ApplyResult(s, "undo_last_event",
                      undo_last_event(session[s].match, frame_id, last, fault))
    /\ UNCHANGED <<frames_to_win, match_date, next_event_id, now, groups, queue, sent, http>>

ReceiveRemoveEventsFromFrame(s, frame_id, event_ids, fault) ==
    /\ CanReceive(s)
    /\ ApplyResult(s, "remove_events_from_frame",
                   remove_events_from_frame(session[s].match, frame_id, event_ids, fault))
    /\ UNCHANGED <<frames_to_win, match_date, next_event_id, now, groups, queue, sent, http>>

ReceiveClearFrameEvents(s, frame_id, fault) ==
    /\ CanReceive(s)
    /\ ApplyResult(s, "clear_frame_events",
                   clear_frame_events(session[s].match, frame_id, fault))
    /\ UNCHANGED <<frames_to_win, match_date, next_event_id, now, groups, queue, sent, http>>

ReceiveSetBallGroups(s, frame_id, player1_group, player2_group, fault) ==
    /\ CanReceive(s)
    /\ ApplyResult(s, "set_ball_groups",
                   set_frame_ball_groups(session[s].match, frame_id,
                                         player1_group, player2_group, fault))
    /\ UNCHANGED <<frames_to_win, match_date, next_event_id, now, groups, queue, sent, http>>

\* text that is not JSON ("invalid_json"), JSON that is not an object
\* ("not_object"), an object whose action is none of the nine ("unknown")
ReceiveMalformed(s, kind) ==
    /\ CanReceive(s)
    /\ kind \in {"invalid_json", "not_object", "unknown"}
    /\ Applied(s, kind, FALSE, "", <<>>)
    /\ UNCHANGED <<store, now, groups, queue, sent, http>>

\* the rest of receive after the store function: group_send to the match
\* group when the command succeeded, then the acknowledgement to the sender
Respond(s) ==
    /\ session[s].st = "busy"
    /\ LET pend == session[s].pend
           r == ReceiveReplies(pend)
       IN  /\ queue' = IF r.broadcast # ""
                       THEN GroupSend(MatchGroup(session[s].match),
                                      Msg(r.broadcast, "", "", pend.cmd))
                       ELSE queue
           /\ sent' = IF r.ack # ""
                      THEN [sent EXCEPT ![s] =
                              Append(@, Msg(r.ack, r.success, r.message, pend.cmd))]
                      ELSE sent
    /\ session' = [session EXCEPT ![s].st = "open", ![s].pend = NoPend]
    /\ UNCHANGED <<store, now, groups, applied, http>>

\* ------------------------------ create_frame, query by query
\* create_frame reads the match, counts the wins of each player and compares
\* them, and only then inserts the frame; no transaction and no lock holds
\* the queries together, so what another connection's store function writes
\* between the counts and the insert is not seen by the gate. StartFrameGate
\* is start_frame up to the two checks, StartFrameCreate the rest of it.
StartFrameGate(s, frame_number) ==
    /\ CanReceive(s)
    /\ session' = [session EXCEPT ![s].st = "gating",
            ![s].pend = [action |-> "start_frame",
                         ok |-> FrameGate(session[s].match) = "allow",
                         message |-> "", cmd |-> 0, data |-> <<frame_number>>]]
    /\ UNCHANGED <<store, now, groups, queue, sent, applied, http>>

StartFrameCreate(s) ==
    /\ session[s].st = "gating"
    /\ session[s].pend.ok => Len(frames) < MaxFrames
    /\ LET m == session[s].match
           frame_number == session[s].pend.data[1]
           number == IF frame_number = NoId
                     THEN Cardinality(MatchFrames(m)) + 1 ELSE frame_number
       IN  ApplyResult(s, "start_frame",
                IF session[s].pend.ok
                THEN Result(TRUE, "", [frame_id |-> Len(frames) + 1],
                            Append(frames, NewFrame(m, number, NoId)), events)
                ELSE Failure(""))
    /\ UNCHANGED <<frames_to_win, match_date, next_event_id, now, groups, queue, sent, http>>

\* ------------------------------------------------- HTTP: biro_frames POST
NoResponse == [status |-> 0, error |-> "", player1_wins |-> 0, player2_wins |-> 0]

HttpCreateFrame(m, frame_number, winner_id) ==
    /\ HttpFrameGate(m) = "" => Len(frames) < MaxFrames
    /\ LET error == HttpFrameGate(m)
           number == IF frame_number = NoId
                     THEN Cardinality(MatchFrames(m)) + 1 ELSE frame_number
           cmd == Len(applied) + 1
           log(ok) == Append(applied,
                [session |-> "http", match |-> m, action |-> "http_create_frame", ok |-> ok,
                 data |-> <<>>, before |-> [frames |-> frames, events |-> events]])
       IN  IF error # ""
           THEN /\ http' = [status |-> 400, error |-> error,
                            player1_wins |-> player_wins(m, Player1(m)),
                            player2_wins |-> player_wins(m, Player2(m))]
                /\ applied' = log(FALSE)
                /\ UNCHANGED <<frames, queue>>
           ELSE IF winner_id # NoId /\ winner_id \notin Profiles
           THEN /\ http' = [NoResponse EXCEPT !.status = 400, !.error = "Winner not found"]
                /\ applied' = log(FALSE)
                /\ UNCHANGED <<frames, queue>>
           ELSE /\ frames' = Append(frames, NewFrame(m, number, winner_id))
                /\ queue' = GroupSend(MatchGroup(m),
                        Msg("frame_update", "", "", cmd))
                /\ http' = [NoResponse EXCEPT !.status = 201]
                /\ applied' = log(TRUE)
    /\ UNCHANGED <<frames_to_win, match_date, events, next_event_id, now, groups, session, sent>>

\* ---------------------------------------------------------- specifications
\* what the clients of the models below send
EventInputs == {<<BALLS_POTTED, <<"1", "9">>>>, <<NEXT_PLAYER, <<>>>>}
EventIdLists ==
    {<<>>} \cup {<<e>> : e \in 1..MaxEvents} \cup {<<1, 1>>, <<1, 2>>, <<1, Malformed>>}

OpenOn(s, m) ==
    [st |-> "open", match |-> m, pend |-> NoPend, code |-> 0,
     token |-> IF s \in Biros THEN "t_biro" ELSE "-"]

\* the sessions of B and V have connected to match 1 and got its state
ConnectedToMatch1(B, V) ==
    /\ groups = [g \in GroupNames |->
            IF g = MatchGroup(1) THEN V ELSE IF g = BiroGroup(1) THEN B ELSE {}]
    /\ session = [s \in Sessions |-> IF s \in B \cup V THEN OpenOn(s, 1) ELSE NewSession]
    /\ queue = [s \in Sessions |-> <<>>]
    /\ sent = [s \in Sessions |->
            IF s \in B \cup V THEN <<Msg("match_state", "", MatchData(1), 0)>> ELSE <<>>]

\* two matches with the default frames_to_win, a frame each, one event in the
\* frame of match 1
SmallStore ==
    /\ frames_to_win = [m \in Matches |-> 5]
    /\ match_date = [m \in Matches |-> NoDate]
    /\ frames = <<[NewFrame(1, 1, NoId) EXCEPT !.events = {1}], NewFrame(2, 1, NoId)>>
    /\ events = (1 :> [eventType |-> BALLS_POTTED, ball_ids |-> <<"1", "9">>, timestamp |-> 0])
    /\ next_event_id = 2
    /\ now = 0
    /\ applied = <<>>
    /\ http = NoResponse

\* --- the frame lifecycle: one scorekeeper on match 1, any frames_to_win and
\* any frames won so far
GateFrames ==
    {fr \in UNION {[1..k -> {NoId} \cup Profiles] : k \in 0..MaxFrames} :
        \A i \in 1..(Len(fr) - 1) : fr[i] <= fr[i + 1]}

GateInit ==
    /\ \E n \in 1..MaxFramesToWin : frames_to_win = [m \in Matches |-> n]
    /\ match_date = [m \in Matches |-> NoDate]
    /\ \E won \in GateFrames, other \in {<<>>, <<NewFrame(2, 1, 1)>>} :
            /\ Len(won) + Len(other) <= MaxFrames
            /\ frames = [i \in 1..Len(won) |-> NewFrame(1, i, won[i])] \o other
    /\ events = <<>>
    /\ next_event_id = 1
    /\ now = 0
    /\ applied = <<>>
    /\ http = NoResponse
    /\ ConnectedToMatch1({"b1"}, {})

GateNext ==
    \/ /\ Len(applied) < MaxGateCmds
       /\ \/ \E n \in {NoId, 1} : ReceiveStartFrame("b1", n, FALSE)
          \/ \E f \in 1..MaxFrames, w \in {NoId} \cup Profiles :
                ReceiveEndFrame("b1", f, w, FALSE)
          \/ \E n \in {Absent} \cup 1..MaxFramesToWin : ReceiveUpdateMatch("b1", n, Absent, FALSE)
          \/ \E m \in Matches, w \in {NoId, 1, 2, BadProfile} : HttpCreateFrame(m, NoId, w)
    \/ Respond("b1")

GateSpec == GateInit /\ [][GateNext]_vars

\* --- repeated attempts: one scorekeeper on match 1, which has one frame
RegateInit ==
    /\ \E n \in 1..3 : frames_to_win = [m \in Matches |-> n]
    /\ match_date = [m \in Matches |-> NoDate]
    /\ \E w \in {NoId, 1, 2} : frames = <<NewFrame(1, 1, w)>>
    /\ events = <<>>
    /\ next_event_id = 1
    /\ now = 0
    /\ applied = <<>>
    /\ http = NoResponse
    /\ ConnectedToMatch1({"b1"}, {})

RegateNext ==
    \/ /\ Len(applied) < MaxRegateCmds
       /\ \/ ReceiveStartFrame("b1", NoId, FALSE)
          \/ \E f \in FrameIds, w \in {1, 2} : ReceiveEndFrame("b1", f, w, FALSE)
          \/ \E n \in 1..MaxFramesToWin : ReceiveUpdateMatch("b1", n, Absent, FALSE)
    \/ Respond("b1")

RegateSpec == RegateInit /\ [][RegateNext]_vars

\* --- one scorekeeper and one spectator on match 1: every command, with
\* every kind of argument
Command(s) ==
    \E fault \in BOOLEAN :
        \/ \E e \in EventInputs, f \in 0..MaxFrames, t \in 0..MaxClock :
                ReceiveCreateEvent(s, e[1], e[2], f, t, fault)
        \/ \E n \in {NoId, 1} : ReceiveStartFrame(s, n, fault)
        \/ \E f \in 1..MaxFrames, w \in {NoId, 1, 3, BadProfile} :
                ReceiveEndFrame(s, f, w, fault)
        \/ \E n \in {Absent, 1, MaxFramesToWin} : ReceiveUpdateMatch(s, n, Absent, fault)
        \/ \E e \in 1..MaxEvents : ReceiveRemoveEvent(s, e, fault)
        \/ \E f \in 1..MaxFrames : ReceiveUndoLastEvent(s, f, fault)
        \/ \E f \in 1..MaxFrames, ids \in EventIdLists :
                ReceiveRemoveEventsFromFrame(s, f, ids, fault)
        \/ \E f \in 1..MaxFrames : ReceiveClearFrameEvents(s, f, fault)
        \/ \E f \in 1..MaxFrames, g1 \in GroupInputs, g2 \in {"", BALL_GROUP_STRIPED} :
                ReceiveSetBallGroups(s, f, g1, g2, fault)

Init ==
    /\ SmallStore
    /\ ConnectedToMatch1({"b1"}, {"v1"})

Next ==
    \/ /\ Len(applied) < MaxCmds
       /\ \/ Command("b1")
          \/ \E k \in {"invalid_json", "not_object", "unknown"} : ReceiveMalformed("b1", k)
    \/ Respond("b1")
    \/ Deliver("v1")

Spec == Init /\ [][Next]_vars

\* --- two scorekeepers and a spectator on match 1, a second spectator who
\* may join either match: the commands that change no frame list
HubCommand(s) ==
    \/ \E f \in {1, MaxFrames}, fault \in BOOLEAN :
            ReceiveCreateEvent(s, NEXT_PLAYER, <<>>, f, now, fault)
    \/ \E w \in {1, BadProfile} : ReceiveEndFrame(s, 1, w, FALSE)
    \/ \E e \in 1..MaxEvents : ReceiveRemoveEvent(s, e, FALSE)

HubInit ==
    /\ SmallStore
    /\ ConnectedToMatch1(Biros, {"v1"})

HubNext ==
    \/ Len(applied) < MaxHubCmds /\ \E s \in Biros : HubCommand(s)
    \/ \E s \in Biros : Respond(s)
    \/ \E s \in Spectators : Deliver(s)
    \/ \E m \in Matches : SpectatorConnect("v2", m)
    \/ SendMatchState("v2")
    \/ \E s \in Spectators : Disconnect(s)

HubSpec == HubInit /\ [][HubNext]_vars

\* --- connecting: two scorekeeper clients with any credential, a spectator
\* on match 1
AuthInit ==
    /\ SmallStore
    /\ ConnectedToMatch1({}, {"v1"})

AuthNext ==
    \/ \E s \in Biros, m \in Matches, t \in Tokens : BiroConnect(s, m, t)
    \/ \E s \in Biros : SendMatchState(s)
    \/ Len(applied) < MaxHubCmds /\ \E s \in Biros : HubCommand(s)
    \/ \E s \in Biros : Respond(s)
    \/ Deliver("v1")
    \/ \E s \in Biros : Disconnect(s)

AuthSpec == AuthInit /\ [][AuthNext]_vars

\* --- two scorekeepers on match 1, which has one frame: start_frame query
\* by query, next to end_frame
Gating == {s \in Biros : session[s].st = "gating"}

RaceInit ==
    /\ \E n \in 1..3 : frames_to_win = [m \in Matches |-> n]
    /\ match_date = [m \in Matches |-> NoDate]
    /\ \E w \in {NoId, 1, 2} : frames = <<NewFrame(1, 1, w)>>
    /\ events = <<>>
    /\ next_event_id = 1
    /\ now = 0
    /\ applied = <<>>
    /\ http = NoResponse
    /\ ConnectedToMatch1(Biros, {})

RaceNext ==
    \/ /\ Len(applied) + Cardinality(Gating) < MaxRaceCmds
       /\ \E s \in Biros :
            \/ StartFrameGate(s, NoId)
            \/ \E f \in FrameIds, w \in {1, 2} : ReceiveEndFrame(s, f, w, FALSE)
    \/ \E s \in Biros : StartFrameCreate(s)
    \/ \E s \in Biros : Respond(s)

RaceSpec == RaceInit /\ [][RaceNext]_vars

\* --- subscribing while commands run: scorekeeper b1 is on match 1, a second
\* scorekeeper and a spectator connect to either match
JoinInit ==
    /\ SmallStore
    /\ ConnectedToMatch1({"b1"}, {})

JoinNext ==
    \/ \E m \in Matches, t \in {"t_biro", "forged"} : BiroConnect("b2", m, t)
    \/ \E m \in Matches : SpectatorConnect("v1", m)
    \/ \E s \in {"b2", "v1"} : SendMatchState(s)
    \/ Len(applied) < MaxHubCmds /\ \E s \in Biros : HubCommand(s)
    \/ \E s \in Biros : Respond(s)
    \/ Deliver("v1")

JoinSpec == JoinInit /\ [][JoinNext]_vars

\* --- the event log of a frame: one scorekeeper on match 1, whose frame 1
\* holds any short event sequence; frame 2 belongs to match 2
ProjEventInputs ==
    {<<BALLS_POTTED, <<"1", "9">>>>, <<NEXT_PLAYER, <<>>>>, <<FAUL, <<"9">>>>}

ProjInit ==
    /\ frames_to_win = [m \in Matches |-> 5]
    /\ match_date = [m \in Matches |-> NoDate]
    /\ \E n \in 0..(MaxEvents - 2) :
        \E log \in [1..n -> ProjEventInputs \X (0..MaxClock)] :
            /\ \A i \in 1..(n - 1) : log[i][2] <= log[i + 1][2]
            /\ events = [e \in 1..n |->
                    [eventType |-> log[e][1][1], ball_ids |-> log[e][1][2],
                     timestamp |-> log[e][2]]]
            /\ frames = <<[NewFrame(1, 1, NoId) EXCEPT !.events = 1..n], NewFrame(2, 1, NoId)>>
            /\ next_event_id = n + 1
            /\ now = IF n = 0 THEN 0 ELSE log[n][2]
    /\ applied = <<>>
    /\ http = NoResponse
    /\ ConnectedToMatch1({"b1"}, {})

ProjNext ==
    \/ /\ Len(applied) < MaxProjCmds
       /\ \/ \E e \in ProjEventInputs, t \in 0..MaxClock :
                ReceiveCreateEvent("b1", e[1], e[2], 1, t, FALSE)
          \/ \E e \in 1..MaxEvents : ReceiveRemoveEvent("b1", e, FALSE)
          \/ \E f \in {1, 2} : ReceiveUndoLastEvent("b1", f, FALSE)
          \/ \E e \in 1..MaxEvents : ReceiveRemoveEventsFromFrame("b1", 1, <<e>>, FALSE)
          \/ ReceiveClearFrameEvents("b1", 1, FALSE)
    \/ Respond("b1")

ProjSpec == ProjInit /\ [][ProjNext]_vars

\* --- two matches: the scorekeeper and the spectator are on match 1; event 1
\* is in frame 1 of match 1, event 2 in frame 2 of match 2 or in no frame
CrossInit ==
    /\ frames_to_win = [m \in Matches |-> 5]
    /\ match_date = [m \in Matches |-> NoDate]
    /\ \E attached \in {{}, {2}} :
        frames = <<[NewFrame(1, 1, NoId) EXCEPT !.events = {1}],
                   [NewFrame(2, 1, NoId) EXCEPT !.events = attached]>>
    /\ events = [e \in {1, 2} |->
            [eventType |-> IF e = 1 THEN BALLS_POTTED ELSE NEXT_PLAYER,
             ball_ids |-> IF e = 1 THEN <<"1", "9">> ELSE <<>>, timestamp |-> 0]]
    /\ next_event_id = 3
    /\ now = 0
    /\ applied = <<>>
    /\ http = NoResponse
    /\ ConnectedToMatch1({"b1"}, {"v1"})

CrossCommand(s) ==
    \/ \E f \in 0..MaxFrames : ReceiveCreateEvent(s, NEXT_PLAYER, <<>>, f, now, FALSE)
    \/ ReceiveStartFrame(s, NoId, FALSE)
    \/ \E f \in 1..MaxFrames, w \in {NoId, 1} : ReceiveEndFrame(s, f, w, FALSE)
    \/ \E n \in {Absent, 1} : ReceiveUpdateMatch(s, n, Absent, FALSE)
    \/ \E e \in 1..MaxEvents : ReceiveRemoveEvent(s, e, FALSE)
    \/ \E f \in 1..MaxFrames : ReceiveUndoLastEvent(s, f, FALSE)
    \/ \E f \in 1..MaxFrames, ids \in EventIdLists :
            ReceiveRemoveEventsFromFrame(s, f, ids, FALSE)
    \/ \E f \in 1..MaxFrames : ReceiveClearFrameEvents(s, f, FALSE)
    \/ \E f \in 1..MaxFrames, g \in {"", BALL_GROUP_FULL} :
            ReceiveSetBallGroups(s, f, g, "", FALSE)

CrossNext ==
    \/ Len(applied) < MaxCrossCmds /\ CrossCommand("b1")
    \/ Respond("b1")
    \/ Deliver("v1")

CrossSpec == CrossInit /\ [][CrossNext]_vars

\* --- two rooms: scorekeeper b1 and spectator v1 are on match 1, scorekeeper
\* b2 is on match 2, spectator v2 joins either; the spectators may leave
ConnectedTo(where) ==
    /\ groups = [g \in GroupNames |->
            {s \in Sessions : where[s] # NoId /\
                g = (IF s \in Biros THEN BiroGroup(where[s]) ELSE MatchGroup(where[s]))}]
    /\ session = [s \in Sessions |->
            IF where[s] # NoId THEN OpenOn(s, where[s]) ELSE NewSession]
    /\ queue = [s \in Sessions |-> <<>>]
    /\ sent = [s \in Sessions |->
            IF where[s] # NoId
            THEN <<Msg("match_state", "", MatchData(where[s]), 0)>> ELSE <<>>]

ScopeInit ==
    /\ SmallStore
    /\ ConnectedTo([s \in Sessions |->
            CASE s \in {"b1", "v1"} -> 1 [] s = "b2" -> 2 [] OTHER -> NoId])

ScopeCommand(s) ==
    \/ \E f \in FrameIds : ReceiveEndFrame(s, f, 1, FALSE)
    \/ \E f \in FrameIds : ReceiveClearFrameEvents(s, f, FALSE)

ScopeNext ==
    \/ Len(applied) < MaxScopeCmds /\ \E s \in Biros : ScopeCommand(s)
    \/ \E s \in Biros : Respond(s)
    \/ \E s \in Spectators : Deliver(s)
    \/ \E m \in Matches : SpectatorConnect("v2", m)
    \/ SendMatchState("v2")
    \/ \E s \in Sessions : Disconnect(s)

ScopeSpec == ScopeInit /\ [][ScopeNext]_vars

\* --- spectator input: spectators v1 and v2 watch match 1 and send text of
\* every kind, while scorekeeper b1 sends commands
WatchInit ==
    /\ SmallStore
    /\ ConnectedToMatch1({"b1"}, Spectators)

WatchNext ==
    \/ \E s \in Spectators, text \in SpectatorInputs :
            Len(sent[s]) < MaxWatchSent /\ SpectatorReceive(s, text)
    \/ Len(applied) < MaxWatchCmds /\ HubCommand("b1")
    \/ Respond("b1")
    \/ \E s \in Spectators : Deliver(s)
    \/ \E s \in Spectators : Disconnect(s)

WatchSpec == WatchInit /\ [][WatchNext]_vars

\* --- the fields of a frame: one scorekeeper and one spectator on match 1;
\* the commands that write a frame row, with every winner and every pair of
\* ball groups, on the frames of both matches and on frames that do not exist
FieldCommand(s) ==
    \/ \E f \in 1..MaxFrames, w \in {NoId, BadProfile} \cup Profiles :
            ReceiveEndFrame(s, f, w, FALSE)
    \/ \E f \in 1..MaxFrames, g1 \in GroupInputs, g2 \in GroupInputs :
            ReceiveSetBallGroups(s, f, g1, g2, FALSE)
    \/ ReceiveStartFrame(s, NoId, FALSE)
    \/ \E f \in 1..MaxFrames : ReceiveClearFrameEvents(s, f, FALSE)

FieldInit ==
    /\ SmallStore
    /\ ConnectedToMatch1({"b1"}, {"v1"})

FieldNext ==
    \/ Len(applied) < MaxFieldCmds /\ FieldCommand("b1")
    \/ Respond("b1")
    \/ Deliver("v1")

FieldSpec == FieldInit /\ [][FieldNext]_vars

\* --- the fields of a match: scorekeeper b1 and spectator v1 on match 1,
\* scorekeeper b2 on match 2; match 1 has two frames won by player 1.
\* update_match with every kind of value for the two keys, next to the
\* commands that read frames_to_win or write a winner
DateInputs == {Absent, Invalid, 1}
FramesToWinInputs == {Absent, Invalid, 1, MaxFramesToWin}

MatchCommand(s) ==
    \/ \E n \in FramesToWinInputs, d \in DateInputs, fault \in BOOLEAN :
            ReceiveUpdateMatch(s, n, d, fault)
    \/ ReceiveStartFrame(s, NoId, FALSE)
    \/ \E f \in 1..MaxFrames, w \in {1, 2} : ReceiveEndFrame(s, f, w, FALSE)

MatchInit ==
    /\ frames_to_win = [m \in Matches |-> 5]
    /\ match_date = [m \in Matches |-> NoDate]
    /\ frames = <<[NewFrame(1, 1, 1) EXCEPT !.events = {1}], NewFrame(2, 1, NoId),
                  NewFrame(1, 2, 1)>>
    /\ events = (1 :> [eventType |-> BALLS_POTTED, ball_ids |-> <<"1", "9">>, timestamp |-> 0])
    /\ next_event_id = 2
    /\ now = 0
    /\ applied = <<>>
    /\ http = NoResponse
    /\ ConnectedTo([s \in Sessions |->
            CASE s \in {"b1", "v1"} -> 1 [] s = "b2" -> 2 [] OTHER -> NoId])

MatchNext ==
    \/ Len(applied) < MaxMatchCmds /\ \E s \in Biros : MatchCommand(s)
    \/ \E s \in Biros : Respond(s)
    \/ Deliver("v1")

MatchSpec == MatchInit /\ [][MatchNext]_vars

\* --- the balls of a frame: one scorekeeper on match 1 records events whose
\* ball_ids name the cue ball, an id no ball has, an id twice, and ids other
\* events name
BallEventInputs ==
    {<<BALLS_POTTED, <<"cue">>>>, <<BALLS_POTTED, <<"16">>>>, <<BALLS_POTTED, <<"1", "1">>>>,
     <<BALLS_POTTED, <<"1", "9">>>>, <<BALLS_POTTED, <<>>>>, <<FAUL, <<"9">>>>}

BallInit ==
    /\ frames_to_win = [m \in Matches |-> 5]
    /\ match_date = [m \in Matches |-> NoDate]
    /\ \E n \in 0..(MaxEvents - 2) :
        \E log \in [1..n -> BallEventInputs] :
            /\ events = [e \in 1..n |->
                    [eventType |-> log[e][1], ball_ids |-> log[e][2], timestamp |-> 0]]
            /\ frames = <<[NewFrame(1, 1, NoId) EXCEPT !.events = 1..n], NewFrame(2, 1, NoId)>>
            /\ next_event_id = n + 1
    /\ now = 0
    /\ applied = <<>>
    /\ http = NoResponse
    /\ ConnectedToMatch1({"b1"}, {})

BallNext ==
    \/ /\ Len(applied) < MaxBallCmds
       /\ \/ \E e \in BallEventInputs, t \in {now, MaxClock} :
                ReceiveCreateEvent("b1", e[1], e[2], 1, t, FALSE)
          \/ \E f \in {1, 2} : ReceiveUndoLastEvent("b1", f, FALSE)
    \/ Respond("b1")

BallSpec == BallInit /\ [][BallNext]_vars

\* ------------------------------------------------------------------ claims
Last(q) == q[Len(q)]

\* this step is an attempt to create a frame of match m, over the
\* scorekeeper socket or over HTTP
FrameAttempt(m) ==
    /\ Len(applied') = Len(applied) + 1
    /\ Last(applied').match = m
    /\ Last(applied').action \in {"start_frame", "http_create_frame"}

FrameCreated == Len(frames') = Len(frames) + 1
NoFrameCreated == frames' = frames

\* the frames of match m whose winner is player p, as the claims count them
FramesWonBy(m, p) ==
    Cardinality({f \in 1..Len(frames) : frames[f].match = m /\ frames[f].winner = p})

MostWins(m) == Max(FramesWonBy(m, Player1(m)), FramesWonBy(m, Player2(m)))
BothWins(m) == FramesWonBy(m, Player1(m)) + FramesWonBy(m, Player2(m))

\* C1: with odd frames_to_win = N, an attempt to create a frame (start_frame
\* or the HTTP endpoint) creates none when max(player1_wins, player2_wins) >=
\* (N+1)/2, and otherwise creates one (the HTTP endpoint still refuses a
\* winner_id that names no profile, which is no decision of the gate).
C1_OddGate ==
    [][\A m \in Matches :
        (FrameAttempt(m) /\ frames_to_win[m] % 2 = 1) =>
            IF MostWins(m) >= (frames_to_win[m] + 1) \div 2
            THEN NoFrameCreated /\ ~Last(applied').ok
            ELSE \/ FrameCreated /\ Last(applied').ok
                 \/ NoFrameCreated /\ http'.error = "Winner not found"]_vars

\* an odd match whose leader has the wins needed was refused a frame, and an
\* odd match was given one
C1_Witness ==
    /\ applied # <<>>
    /\ Last(applied).action \in {"start_frame", "http_create_frame"}
    /\ ~Last(applied).ok
    /\ frames_to_win[Last(applied).match] = 3
    /\ MostWins(Last(applied).match) = 2
    /\ BothWins(Last(applied).match) = 3

\* C2: with even frames_to_win = N, an attempt creates no frame once
\* player1_wins + player2_wins >= N, and none once a player has (N+1)/2 wins;
\* when both hold the refusal is the one for a decided match, not for a draw.
C2_EvenGate ==
    [][\A m \in Matches :
        (FrameAttempt(m) /\ frames_to_win[m] % 2 = 0) =>
            /\ BothWins(m) >= frames_to_win[m] => NoFrameCreated /\ ~Last(applied').ok
            /\ MostWins(m) >= (frames_to_win[m] + 1) \div 2 =>
                    NoFrameCreated /\ ~Last(applied').ok
            /\ (/\ BothWins(m) >= frames_to_win[m]
                /\ MostWins(m) >= (frames_to_win[m] + 1) \div 2) =>
                    IF Last(applied').action = "http_create_frame"
                    THEN http'.error = "Match is already decided - winner declared"
                    ELSE FrameGate(m) = "decided"]_vars

\* an even match with all N frames won, three of the four by one player, was
\* refused a frame
C2_Witness ==
    /\ applied # <<>>
    /\ Last(applied).action \in {"start_frame", "http_create_frame"}
    /\ ~Last(applied).ok
    /\ frames_to_win[Last(applied).match] = 4
    /\ BothWins(Last(applied).match) = 4
    /\ MostWins(Last(applied).match) = 3

\* C3: with even frames_to_win = N and both players at N/2 wins, the attempt
\* is refused and the reason given is the draw, not the decided match.
C3_TieIsDraw ==
    [][\A m \in Matches :
        (/\ FrameAttempt(m)
         /\ frames_to_win[m] % 2 = 0
         /\ FramesWonBy(m, Player1(m)) = frames_to_win[m] \div 2
         /\ FramesWonBy(m, Player2(m)) = frames_to_win[m] \div 2) =>
            /\ NoFrameCreated
            /\ IF Last(applied').action = "http_create_frame"
               THEN http'.error = "Match ended in draw"
               ELSE FrameGate(m) = "draw"]_vars

\* C4: when the gate refuses a start_frame, no frame is created and the
\* scorekeeper who sent it is answered with the refusal: a message that
\* carries the reason.
C4_DenialAnswered ==
    [][\A s \in Biros :
        (/\ session[s].st = "busy"
         /\ session[s].pend.action = "start_frame"
         /\ ~session[s].pend.ok
         /\ session'[s].st = "open") =>
            /\ frames' = frames
            /\ Len(sent'[s]) = Len(sent[s]) + 1
            /\ Last(sent'[s]).cmd = session[s].pend.cmd
            /\ Last(sent'[s]).message # ""]_vars

\* this step is start_frame on match m, and not the first one in the run
LaterStartFrame(m) ==
    /\ FrameAttempt(m)
    /\ Last(applied').action = "start_frame"
    /\ \E i \in 1..Len(applied) : applied[i].action = "start_frame" /\ applied[i].match = m

\* C5: the gate is evaluated on the store as it is at each attempt: a
\* start_frame that follows an earlier one is allowed exactly when, at that
\* moment, neither player has frames_needed_to_win wins, whatever the earlier
\* attempt answered and whatever end_frame and update_match did in between.
C5_GateOnCurrentState ==
    [][\A m \in Matches :
        LaterStartFrame(m) =>
            (Last(applied').ok /\ FrameCreated) <=>
                (MostWins(m) < (frames_to_win[m] + 1) \div 2)]_vars

\* a start_frame was refused, the store changed, and a later start_frame was
\* allowed
C5_Witness ==
    \E i, j \in 1..Len(applied) :
        /\ i < j
        /\ applied[i].action = "start_frame" /\ ~applied[i].ok
        /\ applied[j].action = "start_frame" /\ applied[j].ok

\* an allowed start_frame, then a refused one
C5_WitnessConverse ==
    \E i, j \in 1..Len(applied) :
        /\ i < j
        /\ applied[i].action = "start_frame" /\ applied[i].ok
        /\ applied[j].action = "start_frame" /\ ~applied[j].ok

\* what is true of each credential, whatever connect() makes of it
CredentialPresent(t) == t \notin {"-", "absent", ""}
ResolvesToPrincipal(t) == t \in {"t_player", "t_biro"}
PrincipalIsBiro(t) == t = "t_biro"

CommandsOf(s) == {i \in 1..Len(applied) : applied[i].session = s}

\* C6: a scorekeeper connection is in a broadcast group, has been sent
\* anything (a match_state, an update, an acknowledgement) or has had a
\* command run against the store only if its credential was present,
\* resolved to a principal and that principal is a biro; a rejected
\* connection has none of these.
C6_OnlyAuthorizedJoin ==
    \A s \in Biros :
        /\ (\/ \E g \in GroupNames : s \in groups[g]
            \/ sent[s] # <<>>
            \/ queue[s] # <<>>
            \/ CommandsOf(s) # {}
            \/ session[s].st \in {"joined", "open", "busy", "closed"})
                => /\ CredentialPresent(session[s].token)
                   /\ ResolvesToPrincipal(session[s].token)
                   /\ PrincipalIsBiro(session[s].token)
        /\ session[s].st = "rejected" =>
                /\ \A g \in GroupNames : s \notin groups[g]
                /\ sent[s] = <<>> /\ queue[s] = <<>>
                /\ CommandsOf(s) = {}

\* one client was rejected for each cause while another, with a biro's
\* credential, joined and had a command run
C6_Witness ==
    /\ session["b1"].st = "rejected"
    /\ session["b1"].token = "t_player"
    /\ session["b2"].st = "open"
    /\ CommandsOf("b2") # {}
    /\ Len(sent["b2"]) >= 2

NineActions ==
    {"create_event", "start_frame", "end_frame", "update_match", "remove_event",
     "undo_last_event", "remove_events_from_frame", "clear_frame_events", "set_ball_groups"}

\* the acknowledgements session s was sent for the command with serial i
AcksOf(s, i) ==
    {k \in 1..Len(sent[s]) : sent[s][k].type # "match_state" /\ sent[s][k].cmd = i}

\* C7: once the session has handled it, each of the nine commands has been
\* answered with exactly one acknowledgement to its sender, and the
\* acknowledgement of a failed command carries a reason.
C7_OneAckPerCommand ==
    \A s \in Biros :
        session[s].st = "open" =>
            \A i \in CommandsOf(s) :
                applied[i].action \in NineActions =>
                    /\ Cardinality(AcksOf(s, i)) = 1
                    /\ ~applied[i].ok => \A k \in AcksOf(s, i) : sent[s][k].message # ""

\* session t holds, queued or already forwarded, the update of command i
HasUpdate(t, i) ==
    \E k \in 1..Len(sent[t] \o queue[t]) :
        LET msg == (sent[t] \o queue[t])[k]
        IN  msg.cmd = i /\ msg.type \notin {"match_state", "pong", "error"}

\* C8: when a command on match M has been applied and answered, its update
\* has gone to every session subscribed to M at that moment, spectators and
\* scorekeepers alike.
C8_UpdateReachesAll ==
    [][\A s \in Biros :
        (/\ session[s].st = "busy"
         /\ session[s].pend.ok
         /\ session'[s].st = "open") =>
            \A t \in groups[MatchGroup(session[s].match)]
                        \cup groups[BiroGroup(session[s].match)] :
                HasUpdate(t, session[s].pend.cmd)']_vars

\* the update messages a spectator holds, queued or forwarded, in order
Updates(t) ==
    SelectSeq(sent[t] \o queue[t], LAMBDA msg : msg.type \notin {"match_state", "pong"})

\* C9: a spectator is never sent an error, and every message it gets from
\* the room is the update of a command that succeeded; a command that failed
\* (refused by the gate, entity not found, store fault) broadcasts nothing.
C9_FailureNotBroadcast ==
    \A t \in Spectators :
        \A k \in 1..Len(Updates(t)) :
            /\ Updates(t)[k].type # "error"
            /\ Updates(t)[k].cmd \in 1..Len(applied)
            /\ applied[Updates(t)[k].cmd].ok

\* a command failed and was answered, another succeeded and reached the
\* spectator
C9_Witness ==
    /\ session["b1"].st = "open"
    /\ \E i \in CommandsOf("b1") : ~applied[i].ok
    /\ \E i \in CommandsOf("b1") : applied[i].ok /\ HasUpdate("v1", i)
    /\ Len(Updates("v1")) = 1

\* C10: every subscriber of a match sees the updates in the order in which
\* their commands were applied to the store, so any two see them in the same
\* order.
C10_BroadcastInApplyOrder ==
    \A t \in Spectators :
        \A j, k \in 1..Len(Updates(t)) :
            j < k => Updates(t)[j].cmd < Updates(t)[k].cmd

\* C11: commands on one match are applied one at a time: nothing takes effect
\* between the gate check of a start_frame and its frame creation, so a frame
\* of match m is only ever created in a state where neither player of m has
\* the wins that decide the match.
C11_NoFrameInDecidedMatch ==
    [][\A m \in Matches :
        (FrameCreated /\ Last(frames').match = m) =>
            MostWins(m) < (frames_to_win[m] + 1) \div 2]_vars

\* the match as a subscriber is to be shown it: the players, frames_to_win,
\* every frame of the match with its winner and ball groups, and every
\* frame's events
IsFullProjection(data, m) ==
    /\ data.id = m
    /\ data.player1 = Player1(m) /\ data.player2 = Player2(m)
    /\ data.frames_to_win = frames_to_win[m]
    /\ DOMAIN data.match_frames = {f \in 1..Len(frames) : frames[f].match = m}
    /\ \A f \in DOMAIN data.match_frames :
        /\ data.match_frames[f].frame = frames[f]
        /\ DOMAIN data.match_frames[f].events = frames[f].events
        /\ \A e \in frames[f].events : data.match_frames[f].events[e] = events[e]

LastIsFullProjection(s) == IsFullProjection(Last(sent[s]).message, session[s].match)

\* a subscribed session has been sent a match_state, first of all, and once
MatchStateOnceAndFirst ==
    \A s \in Sessions :
        /\ session[s].st \in {"open", "busy", "closed"} => sent[s] # <<>>
        /\ sent[s] # <<>> =>
            /\ sent[s][1].type = "match_state"
            /\ \A k \in 2..Len(sent[s]) : sent[s][k].type # "match_state"

\* C12: a session that has subscribed to a match is sent exactly one
\* match_state: it is the first message the session gets, before every update
\* and acknowledgement, none follows it, and it holds the full projection of
\* the match as the store has it when it is sent.
C12_OneMatchStateFirst ==
    [][/\ MatchStateOnceAndFirst'
       /\ \A s \in Sessions :
            (Len(sent'[s]) > Len(sent[s]) /\ Last(sent'[s]).type = "match_state") =>
                LastIsFullProjection(s)']_vars

\* a spectator joined while a command was being answered: it got the
\* match_state read after that command, and then the command's update, which
\* had waited in its channel
C12_Witness ==
    /\ Len(sent["v1"]) >= 2
    /\ sent["v1"][1].type = "match_state"
    /\ sent["v1"][1].cmd >= 1
    /\ sent["v1"][2].type = "event_created"
    /\ sent["v1"][2].cmd <= sent["v1"][1].cmd
    /\ session["b2"].st = "open" /\ Len(sent["b2"]) >= 2

\* this step attaches exactly one event, e, to frame f and changes no other
\* membership of f and no other event row
EventAppended(f, e) ==
    /\ f \in 1..Len(frames) /\ Len(frames') = Len(frames)
    /\ e \notin DOMAIN events
    /\ e \notin frames[f].events
    /\ frames'[f].events = frames[f].events \cup {e}
    /\ DOMAIN events' = DOMAIN events \cup {e}
    /\ \A o \in DOMAIN events : events'[o] = events[o]

\* C13: ballsOnTable never grows when an event is appended to a frame: after
\* a balls_potted event it is a subset of what it was, after an event of any
\* other type it is what it was, whatever order the query gives events of
\* equal timestamp.
C13_BallsNeverGrow ==
    [][\A f \in 1..Len(frames), e \in 1..MaxEvents :
        EventAppended(f, e) =>
            LET was == {get_balls_on_table(events, q) :
                            q \in OrderedEvents(frames, events, f)}
                is == {get_balls_on_table(events', r) :
                            r \in OrderedEvents(frames', events', f)}
            IN  \A a \in is, b \in was :
                    /\ SeqToSet(a) \subseteq SeqToSet(b)
                    /\ events'[e].eventType # BALLS_POTTED => a = b]_vars

\* balls 1 and 9 were potted, potted again and named by a faul event: they
\* are off the table, the other 13 object balls are on it, the cue ball was
\* never on the list
C13_Witness ==
    /\ Len(applied) = MaxProjCmds
    /\ applied[1].action = "create_event" /\ applied[1].ok
    /\ applied[2].action = "create_event" /\ applied[2].ok
    /\ frames[1].events = {1, 2, 3}
    /\ events[1].eventType = BALLS_POTTED
    /\ events[2].eventType = BALLS_POTTED
    /\ events[3].eventType = FAUL
    /\ \A q \in OrderedEvents(frames, events, 1) :
            /\ Len(get_balls_on_table(events, q)) = 13
            /\ SeqToSet(get_balls_on_table(events, q)) \cap {"1", "9", "cue"} = {}

RECURSIVE Concat(_)
Concat(segments) ==
    IF segments = <<>> THEN <<>> ELSE Head(segments) \o Concat(Tail(segments))

\* C14: for every event sequence of a frame, the turns concatenated in order
\* are the timestamp-ordered sequence itself: no event dropped, duplicated or
\* moved.
C14_TurnsConcatenate ==
    \A f \in 1..Len(frames) :
        \A q \in OrderedEvents(frames, events, f) :
            Concat(return_events_as_turns(events, q)) = q

\* three events with a next_player in the middle make two turns, which
\* concatenate to the three
C14_Witness ==
    /\ applied # <<>> /\ Last(applied).action = "create_event" /\ Last(applied).ok
    /\ frames[1].events = {1, 2, 3}
    /\ events[2].eventType = NEXT_PLAYER
    /\ <<1, 2, 3>> \in OrderedEvents(frames, events, 1)
    /\ return_events_as_turns(events, <<1, 2, 3>>) = <<<<1>>, <<2, 3>>>>

NextPlayerCount(ev, q) ==
    Cardinality({i \in 1..Len(q) : ev[q[i]].eventType = NEXT_PLAYER})

\* C15: in the turns of a frame every next_player event is the first event
\* of its turn and no turn holds one anywhere else, no turn is empty (also
\* when the sequence begins with next_player or has two in a row), and the
\* events after the last next_player are the last turn: there is one turn
\* for every next_player, one more for the events before the first, and the
\* last turn ends with the last event.
C15_TurnsShape ==
    \A f \in 1..Len(frames) :
        \A q \in OrderedEvents(frames, events, f) :
            LET turns == return_events_as_turns(events, q)
            IN  /\ \A t \in 1..Len(turns) :
                    /\ turns[t] # <<>>
                    /\ \A i \in 2..Len(turns[t]) :
                            events[turns[t][i]].eventType # NEXT_PLAYER
                    /\ t >= 2 => events[turns[t][1]].eventType = NEXT_PLAYER
                /\ Len(turns) = NextPlayerCount(events, q)
                        + (IF q # <<>> /\ events[q[1]].eventType # NEXT_PLAYER THEN 1 ELSE 0)
                /\ q # <<>> => Last(Last(turns)) = Last(q)

\* the sequence begins with two next_player events and ends with a run that
\* no next_player follows
C15_Witness ==
    /\ applied # <<>> /\ Last(applied).action = "create_event" /\ Last(applied).ok
    /\ frames[1].events = {1, 2, 3}
    /\ events[1].eventType = NEXT_PLAYER /\ events[2].eventType = NEXT_PLAYER
    /\ events[3].eventType = BALLS_POTTED
    /\ <<1, 2, 3>> \in OrderedEvents(frames, events, 1)
    /\ return_events_as_turns(events, <<1, 2, 3>>) = <<<<1>>, <<2, 3>>>>

\* the rows command i of the log left behind
StoreAfter(i) ==
    IF i < Len(applied) THEN applied[i + 1].before
    ELSE [frames |-> frames, events |-> events]

\* command i was a create_event that attached the new event e to frame f
AppendedTo(i, f, e) ==
    /\ applied[i].action = "create_event" /\ applied[i].ok
    /\ applied[i].data.event_id = e
    /\ f \in 1..Len(StoreAfter(i).frames)
    /\ e \in StoreAfter(i).frames[f].events

\* command i was a removal that succeeded and deleted event e, and no other
RemovedBy(i, e) ==
    /\ applied[i].action \in {"remove_event", "undo_last_event", "remove_events_from_frame"}
    /\ applied[i].ok
    /\ DOMAIN applied[i].before.events \ DOMAIN StoreAfter(i).events = {e}

\* ballsOnTable of frame f on the rows st, as a set: the values the
\* projection may give (one for every order of the events of equal timestamp)
BallsOnTable(st, f) ==
    {get_balls_on_table(st.events, q) : q \in OrderedEvents(st.frames, st.events, f)}

ObjectBalls == Tail(balls)

\* C16: when a balls_potted event is appended to a frame and the next
\* command removes that event (remove_events_from_frame, remove_event or
\* undo_last_event), ballsOnTable of the frame is again what it was before
\* the append; on a frame without events and with ball_ids ["1","9"] it goes
\* from the 15 object balls to those without 1 and 9 and back to the 15.
C16_AppendRemoveRestoresBalls ==
    \A i \in 1..(Len(applied) - 1), f \in 1..Len(frames), e \in 1..MaxEvents :
        (/\ AppendedTo(i, f, e)
         /\ StoreAfter(i).events[e].eventType = BALLS_POTTED
         /\ RemovedBy(i + 1, e)) =>
            /\ BallsOnTable(StoreAfter(i + 1), f) = BallsOnTable(applied[i].before, f)
            /\ (/\ applied[i].before.frames[f].events = {}
                /\ StoreAfter(i).events[e].ball_ids = <<"1", "9">>) =>
                    /\ BallsOnTable(applied[i].before, f) = {ObjectBalls}
                    /\ BallsOnTable(StoreAfter(i), f) =
                        {SelectSeq(ObjectBalls, LAMBDA b : b \notin {"1", "9"})}
                    /\ BallsOnTable(StoreAfter(i + 1), f) = {ObjectBalls}

\* balls 1 and 9 were potted on a fresh frame and the event was removed
\* with remove_events_from_frame
C16_Witness ==
    /\ Len(applied) = 2
    /\ AppendedTo(1, 1, 1)
    /\ applied[1].before.frames[1].events = {}
    /\ applied[2].before.events[1].eventType = BALLS_POTTED
    /\ applied[2].before.events[1].ball_ids = <<"1", "9">>
    /\ applied[2].action = "remove_events_from_frame"
    /\ RemovedBy(2, 1)
    /\ BallsOnTable(StoreAfter(2), 1) = {ObjectBalls}

\* the same with remove_event and undo_last_event, on a frame that already
\* had balls potted
C16_WitnessOtherRemovals ==
    \E a \in {"remove_event", "undo_last_event"} :
        /\ Len(applied) = 2
        /\ \E e \in 2..MaxEvents :
            /\ AppendedTo(1, 1, e)
            /\ applied[2].before.events[e].eventType = BALLS_POTTED
            /\ applied[2].before.events[1].eventType = BALLS_POTTED
            /\ applied[2].action = a
            /\ RemovedBy(2, e)

\* event e is attached to a frame of match m
AttachedInMatch(e, m) ==
    \E f \in 1..Len(frames) : frames[f].match = m /\ e \in frames[f].events

\* C17: remove_event on an event that is attached to no frame of the
\* session's match (it is attached only to a frame of another match, to no
\* frame, or does not exist) fails, deletes and detaches nothing and
\* broadcasts nothing; the failure depends only on the rows, which it leaves
\* as they were, so the same call repeated fails the same way.
C17_RemoveUnattachedFails ==
    [][\A s \in Biros :
        /\ \A e \in 1..MaxEvents :
            (ReceiveRemoveEvent(s, e, FALSE) /\ ~AttachedInMatch(e, session[s].match)) =>
                /\ ~session'[s].pend.ok
                /\ session'[s].pend.message =
                        (IF e \in DOMAIN events THEN "Event not found in this match"
                         ELSE "Event not found")
                /\ frames' = frames /\ events' = events
        /\ (/\ session[s].st = "busy" /\ session'[s].st = "open"
            /\ session[s].pend.action = "remove_event" /\ ~session[s].pend.ok) =>
                /\ queue' = queue
                /\ sent'[s] = Append(sent[s],
                        Msg("error", "", session[s].pend.message, session[s].pend.cmd))]_vars

\* remove_event was sent twice for event 2, which is in the frame of match
\* 2: both calls were answered with the same error, the event is where it
\* was and the spectator of match 1 got nothing
C17_Witness ==
    /\ Len(applied) = 2
    /\ \A i \in 1..2 : applied[i].action = "remove_event" /\ ~applied[i].ok
    /\ 2 \in DOMAIN events /\ 2 \in frames[2].events /\ 1 \in frames[1].events
    /\ Len(sent["b1"]) = 3
    /\ \A k \in 2..3 : /\ sent["b1"][k].type = "error"
                       /\ sent["b1"][k].message = "Event not found in this match"
    /\ queue["v1"] = <<>> /\ Len(sent["v1"]) = 1

\* C18: undo_last_event on a frame of the session's match that has no events
\* fails and changes no row; on a frame with exactly one event it removes
\* and deletes that event, which leaves the frame without events, so that
\* the same call sent again fails and changes nothing.
C18_UndoOnEmptyFails ==
    [][\A s \in Biros, f \in 1..Len(frames) :
        (ReceiveUndoLastEvent(s, f, FALSE) /\ frames[f].match = session[s].match) =>
            /\ frames[f].events = {} =>
                /\ ~session'[s].pend.ok
                /\ session'[s].pend.message = "No events to undo in this frame"
                /\ frames' = frames /\ events' = events
            /\ Cardinality(frames[f].events) = 1 =>
                /\ session'[s].pend.ok
                /\ frames'[f].events = {}
                /\ DOMAIN events' = DOMAIN events \ frames[f].events]_vars

\* undo_last_event twice in a row on a frame with one event: the first
\* call deleted the event, the second was refused
C18_Witness ==
    /\ Len(applied) = 2
    /\ Cardinality(applied[1].before.frames[1].events) = 1
    /\ applied[1].action = "undo_last_event" /\ applied[1].ok
    /\ applied[1].data.frame_id = 1
    /\ applied[2].before.frames[1].events = {}
    /\ applied[2].action = "undo_last_event" /\ ~applied[2].ok
    /\ frames = applied[2].before.frames /\ events = applied[2].before.events
    /\ session["b1"].st = "open"
    /\ Last(sent["b1"]).message = "No events to undo in this frame"

\* the event of frame f appended last: ids are given in the order of creation
MostRecent(f) == CHOOSE e \in frames[f].events : \A o \in frames[f].events : o <= e

\* a create_event on a frame was followed at once by an undo_last_event on
\* that frame, and the rows are not what they were before the two
UndoDidNotRestore ==
    \E i \in 1..(Len(applied) - 1), f \in 1..Len(frames) :
        /\ AppendedTo(i, f, applied[i].data.event_id)
        /\ applied[i + 1].action = "undo_last_event" /\ applied[i + 1].ok
        /\ applied[i + 1].data.frame_id = f
        /\ \/ StoreAfter(i + 1).frames # applied[i].before.frames
           \/ StoreAfter(i + 1).events # applied[i].before.events

\* C19: undo_last_event on a frame of the session's match that has events
\* removes exactly one event, the one with the greatest timestamp, which is
\* the one appended last; it reports the event's id, the frame id and the
\* event type and leaves every other event and every other frame as it was;
\* and a create_event on a frame followed at once by undo_last_event on that
\* frame leaves the frame's events as they were before.
C19_UndoRemovesLatest ==
    [][/\ \A s \in Biros, f \in 1..Len(frames) :
            (/\ ReceiveUndoLastEvent(s, f, FALSE)
             /\ frames[f].match = session[s].match
             /\ frames[f].events # {}) =>
                LET e == MostRecent(f)
                IN  /\ session'[s].pend.ok
                    /\ \A o \in frames[f].events : events[o].timestamp <= events[e].timestamp
                    /\ session'[s].pend.data =
                            [event_id |-> e, frame_id |-> f, event_type |-> events[e].eventType]
                    /\ frames' = [frames EXCEPT ![f].events = @ \ {e}]
                    /\ DOMAIN events' = DOMAIN events \ {e}
                    /\ \A o \in DOMAIN events' : events'[o] = events[o]
       /\ ~UndoDidNotRestore']_vars

\* this step is a command of a session bound to match m
CommandOn(m) ==
    /\ Len(applied') = Len(applied) + 1
    /\ Last(applied').match = m
    /\ Last(applied').action \in NineActions

\* C20: a command of a session bound to match m changes no frame of another
\* match (not the frame's winner, its ball groups or the events it holds),
\* and a command that names a frame that does not exist or is of another
\* match fails and changes no row at all: create_event and end_frame too.
C20_NoCrossMatchEffect ==
    [][\A m \in Matches :
        CommandOn(m) =>
            /\ \A f \in 1..Len(frames) : frames[f].match # m => frames'[f] = frames[f]
            /\ \A s \in Biros, f \in 1..MaxFrames :
                (/\ \/ ReceiveCreateEvent(s, NEXT_PLAYER, <<>>, f, now, FALSE)
                    \/ \E w \in {NoId, 1} : ReceiveEndFrame(s, f, w, FALSE)
                 /\ (f \notin 1..Len(frames) \/ frames[f].match # m)) =>
                    /\ ~Last(applied').ok
                    /\ frames' = frames /\ events' = events]_vars

\* what session t holds, queued or forwarded, apart from its match_state
Received(t) ==
    SelectSeq(sent[t] \o queue[t], LAMBDA msg : msg.type # "match_state")

\* every message a spectator holds was published to the room of its match,
\* and every message a scorekeeper holds answers a command of its own
OnlyOwnRoom ==
    \A t \in Sessions :
        \A k \in 1..Len(Received(t)) :
            LET c == applied[Received(t)[k].cmd]
            IN  IF t \in Spectators THEN c.match = session[t].match
                ELSE c.session = t

\* C21: a message published for match M goes only to the sessions subscribed
\* to M at that moment: a session subscribed to another match never gets it,
\* and a session that has disconnected gets nothing that is published after
\* its disconnect (nothing more is queued for it or written to it).
C21_DeliveredToSubscribersOnly ==
    [][/\ OnlyOwnRoom'
       /\ \A t \in Sessions :
            session[t].st = "closed" => queue'[t] = queue[t] /\ sent'[t] = sent[t]]_vars

\* a command on match 1 and a command on match 2 were answered: v1 left
\* after the first and holds only that one, v2 is in the room of match 2
\* and holds only the second
C21_Witness ==
    /\ Len(applied) = 2
    /\ applied[1].match = 1 /\ applied[1].ok
    /\ applied[2].match = 2 /\ applied[2].ok
    /\ \A s \in Biros : session[s].st = "open"
    /\ session["v1"].st = "closed"
    /\ Len(Received("v1")) = 1 /\ Received("v1")[1].cmd = 1
    /\ session["v2"].st = "open" /\ session["v2"].match = 2
    /\ Len(Received("v2")) = 1 /\ Received("v2")[1].cmd = 2

\* the type of broadcast that belongs to each command
BroadcastOf(action) ==
    CASE action = "create_event" -> "event_created"
      [] action \in {"start_frame", "end_frame", "set_ball_groups"} -> "frame_update"
      [] action = "update_match" -> "match_update"
      [] action \in {"remove_event", "undo_last_event"} -> "event_removed"
      [] action = "remove_events_from_frame" -> "events_removed"
      [] action = "clear_frame_events" -> "frame_events_cleared"
      [] OTHER -> "none"

\* the broadcasts of command i that member t of the room holds
BroadcastsOf(t, i) ==
    {k \in 1..Len(Received(t)) : Received(t)[k].cmd = i}

\* command i has been handled to the end by the session that received it
Answered(i) ==
    ~(session[applied[i].session].st = "busy" /\ session[applied[i].session].pend.cmd = i)

\* C22: a member of the match room holds, for every command that was
\* applied with success and handled to the end, exactly one broadcast, of the
\* type that belongs to the command; it holds none for a command that failed
\* or is still in hand, and none that is not of an applied command.
C22_OneTypedBroadcastPerCommand ==
    \A t \in groups[MatchGroup(1)] :
        /\ \A k \in 1..Len(Received(t)) : Received(t)[k].cmd \in 1..Len(applied)
        /\ \A i \in 1..Len(applied) :
            IF applied[i].ok /\ Answered(i)
            THEN /\ Cardinality(BroadcastsOf(t, i)) = 1
                 /\ \A k \in BroadcastsOf(t, i) :
                        Received(t)[k].type = BroadcastOf(applied[i].action)
            ELSE BroadcastsOf(t, i) = {}

\* a start_frame and an update_match were applied and answered: the
\* spectator holds a frame_update and a match_update, in that order
C22_Witness ==
    /\ Len(applied) = 2
    /\ applied[1].action = "start_frame" /\ applied[1].ok
    /\ applied[2].action = "update_match" /\ applied[2].ok
    /\ session["b1"].st = "open"
    /\ Len(Received("v1")) = 2
    /\ Received("v1")[1].type = "frame_update" /\ Received("v1")[1].cmd = 1
    /\ Received("v1")[2].type = "match_update" /\ Received("v1")[2].cmd = 2

Unparseable == {"invalid_json", "not_object"}

\* C23: a scorekeeper message that is not JSON, or is JSON but not an
\* object, changes no row and no subscription when it is received, and is
\* answered with an error to the sender alone: nothing is broadcast, and the
\* session is open and subscribed afterwards, ready for the next command.
C23_MalformedAnsweredWithError ==
    [][\A s \in Biros :
        /\ (/\ Len(applied') = Len(applied) + 1
            /\ Last(applied').session = s
            /\ Last(applied').action \in Unparseable) =>
                /\ frames_to_win' = frames_to_win /\ frames' = frames /\ events' = events
                /\ groups' = groups /\ queue' = queue
        /\ (/\ session[s].st = "busy" /\ session[s].pend.action \in Unparseable
            /\ session'[s] # session[s]) =>
                /\ session'[s].st = "open"
                /\ s \in groups'[BiroGroup(session[s].match)]
                /\ queue' = queue
                /\ Len(sent'[s]) = Len(sent[s]) + 1
                /\ Last(sent'[s]).type = "error" /\ Last(sent'[s]).message # ""
                /\ frames_to_win' = frames_to_win /\ frames' = frames /\ events' = events]_vars

\* text that is not JSON was answered with an error, and the create_event
\* sent after it on the same session was applied and acknowledged
C23_Witness ==
    /\ Len(applied) = 2
    /\ applied[1].action = "invalid_json"
    /\ applied[2].action = "create_event" /\ applied[2].ok
    /\ session["b1"].st = "open"
    /\ Len(sent["b1"]) = 3
    /\ sent["b1"][2].type = "error" /\ sent["b1"][2].message = "Invalid JSON"
    /\ sent["b1"][3].type = "event_created"
    /\ Len(Received("v1")) = 1

\* C24: a JSON object whose action is missing or is none of the nine changes
\* no row, and receive answers it to the sender with a failure
\* acknowledgement (a message more on the session, of type error or with
\* success false) and leaves the session open.
C24_UnknownActionAnswered ==
    [][\A s \in Biros :
        /\ (/\ Len(applied') = Len(applied) + 1
            /\ Last(applied').session = s
            /\ Last(applied').action = "unknown") =>
                /\ frames_to_win' = frames_to_win /\ frames' = frames /\ events' = events
        /\ (/\ session[s].st = "busy" /\ session[s].pend.action = "unknown"
            /\ session'[s] # session[s]) =>
                /\ session'[s].st = "open"
                /\ frames_to_win' = frames_to_win /\ frames' = frames /\ events' = events
                /\ Len(sent'[s]) = Len(sent[s]) + 1
                /\ \/ Last(sent'[s]).type = "error"
                   \/ Last(sent'[s]).success = "false"]_vars

\* why a credential is refused, in the words of the specification
RejectionCause(token) ==
    IF token \in {"absent", ""} THEN "no credential"
    ELSE IF get_profile_from_token(token).id = NoId THEN "invalid credential"
    ELSE IF ~get_profile_from_token(token).is_biro THEN "forbidden"
    ELSE "none"

\* C25: two scorekeeper connections refused for different causes (no
\* credential, invalid credential, forbidden) are refused with different
\* outcomes: the close code, which is all the client is given, tells the
\* causes apart.
C25_RejectionCausesDistinct ==
    \A s, t \in Biros :
        (/\ session[s].st = "rejected" /\ session[t].st = "rejected"
         /\ RejectionCause(session[s].token) # RejectionCause(session[t].token))
            => session[s].code # session[t].code

\* C26: whatever a spectator sends, no match, frame or event changes and
\* nothing is put into any channel; a ping appends one pong to the sender's
\* own session, any other text appends nothing anywhere, and in every case
\* the session is still open and in its group afterwards.
C26_SpectatorInputInert ==
    [][\A s \in Spectators, text \in SpectatorInputs :
        SpectatorReceive(s, text) =>
            /\ frames_to_win' = frames_to_win /\ frames' = frames /\ events' = events
            /\ queue' = queue /\ groups' = groups
            /\ \A t \in Sessions \ {s} : sent'[t] = sent[t]
            /\ sent'[s] = IF text = "ping"
                          THEN Append(sent[s], Msg("pong", "", "", 0)) ELSE sent[s]
            /\ session'[s].st = "open"]_vars

\* C27: remove_events_from_frame on a frame of the session's match succeeds
\* whatever the list holds; it deletes the listed events that are attached to
\* the frame and no other, and reports the deleted ids, each once, with their
\* number as count.
C27_BulkRemovalBestEffort ==
    [][\A f \in MatchFrames(1), ids \in EventIdLists :
        ReceiveRemoveEventsFromFrame("b1", f, ids, FALSE) =>
            LET listed == SeqToSet(ids) \cap frames[f].events
                r == Last(applied')
            IN  /\ r.ok
                /\ DOMAIN events' = DOMAIN events \ listed
                /\ \A e \in DOMAIN events' : events'[e] = events[e]
                /\ \A g \in FrameIds : frames'[g] = [frames[g] EXCEPT !.events = @ \ listed]
                /\ SeqToSet(r.data.removed_event_ids) = listed
                /\ Len(r.data.removed_event_ids) = Cardinality(listed)
                /\ r.data.count = Cardinality(listed)]_vars

\* this step is a clear_frame_events on frame f that succeeded
ClearedOk(f) ==
    /\ Len(applied') = Len(applied) + 1
    /\ Last(applied').action = "clear_frame_events"
    /\ Last(applied').ok
    /\ Last(applied').data.frame_id = f

\* C28: a successful clear_frame_events leaves the frame with no event and
\* deletes every event that was attached to it and no other; the cleared ids
\* it reports are the events attached before, count is their number, and no
\* other frame and no other field of the frame changes. A clear_frame_events
\* on the same frame right after succeeds and reports count 0.
C28_ClearRemovesAll ==
    [][\A f \in FrameIds :
        /\ ClearedOk(f) =>
            LET was == frames[f].events
                r == Last(applied')
            IN  /\ frames'[f] = [frames[f] EXCEPT !.events = {}]
                /\ \A g \in FrameIds \ {f} : frames'[g] = frames[g]
                /\ DOMAIN events' = DOMAIN events \ was
                /\ \A e \in DOMAIN events' : events'[e] = events[e]
                /\ r.data.cleared_event_ids = was
                /\ r.data.count = Cardinality(was)
        /\ (/\ Len(applied) > 0
            /\ Last(applied).action = "clear_frame_events" /\ Last(applied).ok
            /\ Last(applied).data.frame_id = f
            /\ ReceiveClearFrameEvents(Last(applied).session, f, FALSE)) =>
                /\ ClearedOk(f)
                /\ Last(applied').data.count = 0
                /\ events' = events]_vars

\* frame 1 was cleared of its one event and cleared again; the event of the
\* frame of the other match is still there
C28_Witness ==
    /\ Len(applied) = 2
    /\ \A i \in 1..2 : /\ applied[i].action = "clear_frame_events" /\ applied[i].ok
                       /\ applied[i].data.frame_id = 1
    /\ applied[1].data.cleared_event_ids = {1} /\ applied[1].data.count = 1
    /\ applied[2].data.count = 0
    /\ frames[1].events = {} /\ frames[2].events = {2}
    /\ DOMAIN events = {2}

ValidGroups == {BALL_GROUP_FULL, BALL_GROUP_STRIPED}

BallGroupsValid ==
    \A f \in FrameIds :
        /\ frames[f].player1_ball_group \in ValidGroups \cup {""}
        /\ frames[f].player2_ball_group \in ValidGroups \cup {""}

\* this step is a set_ball_groups command
SetBallGroupsStep ==
    /\ Len(applied') = Len(applied) + 1
    /\ Last(applied').action = "set_ball_groups"

\* C29: set_ball_groups on a frame of the session's match succeeds whatever
\* the two groups are; each of the two fields takes the supplied value when
\* that value is full or striped and keeps its value otherwise, whatever the
\* other one is, and nothing else of the frame, no other frame and no event
\* changes. After every step of any command each ball group of each frame is
\* full, striped or unset.
C29_BallGroupsSetWhenValid ==
    [][/\ BallGroupsValid'
       /\ SetBallGroupsStep =>
            \A f \in MatchFrames(1), g1 \in GroupInputs, g2 \in GroupInputs :
                ReceiveSetBallGroups("b1", f, g1, g2, FALSE) =>
                    /\ Last(applied').ok
                    /\ frames' = [frames EXCEPT
                            ![f].player1_ball_group = IF g1 \in ValidGroups THEN g1 ELSE @,
                            ![f].player2_ball_group = IF g2 \in ValidGroups THEN g2 ELSE @]
                    /\ events' = events /\ frames_to_win' = frames_to_win]_vars

\* player 1 was given the full balls in frame 1; the set_ball_groups after it
\* carried no valid group, succeeded and left both fields as they were
C29_Witness ==
    /\ Len(applied) = 2
    /\ \A i \in 1..2 : applied[i].action = "set_ball_groups" /\ applied[i].ok
    /\ applied[1].before.frames[1].player1_ball_group = ""
    /\ applied[2].before.frames[1].player1_ball_group = BALL_GROUP_FULL
    /\ frames = applied[2].before.frames
    /\ session["b1"].st = "open"
    /\ Last(sent["b1"]).type = "ball_groups_set"

\* the winner_id values of a client: none, a profile (a player or not), an
\* id that names no profile
WinnerInputs == {NoId, BadProfile} \cup Profiles

\* this step is an end_frame command
EndFrameStep ==
    /\ Len(applied') = Len(applied) + 1
    /\ Last(applied').action = "end_frame"

\* C30: end_frame on an existing frame sets the winner to the winner_id
\* supplied, whatever it is and whatever the winner was, and leaves the winner
\* alone when none is supplied; number, ball groups and events of the frame,
\* the other frames and the events stay as they are. On a frame that does
\* not exist it changes nothing.
C30_EndFrameSetsAnyWinner ==
    [][EndFrameStep => \A f \in 1..MaxFrames, w \in WinnerInputs :
        ReceiveEndFrame("b1", f, w, FALSE) =>
            /\ events' = events
            /\ frames' = IF f \in FrameIds /\ w # NoId
                         THEN [frames EXCEPT ![f].winner = w] ELSE frames]_vars

\* C30 as amended: the same, for a winner_id that names a profile, player of
\* the match or not; a winner_id that names no profile makes end_frame fail
\* and leaves the frame as it was. end_frame succeeds in the other cases on
\* an existing frame, and fails on a frame that does not exist.
C30_EndFrameSetsWinner ==
    [][EndFrameStep => \A f \in 1..MaxFrames, w \in WinnerInputs :
        ReceiveEndFrame("b1", f, w, FALSE) =>
            /\ events' = events
            /\ frames' = IF f \in FrameIds /\ w \in Profiles
                         THEN [frames EXCEPT ![f].winner = w] ELSE frames
            /\ Last(applied').ok <=> (f \in FrameIds /\ w # BadProfile)]_vars

\* frame 1 was given to player 1, then to profile 3, who plays no match
C30_Witness ==
    /\ Len(applied) = 2
    /\ \A i \in 1..2 : applied[i].action = "end_frame" /\ applied[i].ok
    /\ applied[1].before.frames[1].winner = NoId
    /\ applied[2].before.frames[1].winner = Player1(1)
    /\ frames[1].winner = 3
    /\ 3 \notin {Player1(1), Player2(1)}
    /\ frames[1] = [applied[1].before.frames[1] EXCEPT !.winner = 3]

\* this step is an update_match command
UpdateMatchStep ==
    /\ Len(applied') = Len(applied) + 1
    /\ Last(applied').action = "update_match"

\* C31: update_match writes nothing but match_date and frames_to_win of the
\* session's match: the frames with their winners, the events and the two
\* fields of the other match stay as they are. A field whose key is not in
\* the update keeps its value; a frames_to_win (and a match_date) the column
\* accepts is stored whatever frames have been won.
C31_UpdateMatchMergesTwoFields ==
    [][UpdateMatchStep =>
        LET s == Last(applied').session
            m == session[s].match
        IN  /\ frames' = frames /\ events' = events
            /\ \A o \in Matches \ {m} :
                    frames_to_win'[o] = frames_to_win[o] /\ match_date'[o] = match_date[o]
            /\ \A n \in FramesToWinInputs, d \in DateInputs :
                ReceiveUpdateMatch(s, n, d, FALSE) =>
                    /\ n = Absent => frames_to_win'[m] = frames_to_win[m]
                    /\ d = Absent => match_date'[m] = match_date[m]
                    /\ (n # Invalid /\ d # Invalid) =>
                            /\ Last(applied').ok
                            /\ n # Absent => frames_to_win'[m] = n
                            /\ d # Absent => match_date'[m] = d]_vars

\* player 1 has won two frames of match 1, and update_match has set its
\* frames_to_win to 1 and left match_date alone; then it set match_date
\* and left frames_to_win alone
C31_Witness ==
    /\ Len(applied) = 2
    /\ \A i \in 1..2 : /\ applied[i].action = "update_match" /\ applied[i].ok
                       /\ applied[i].session = "b1"
    /\ player_wins(1, 1) = 2
    /\ frames_to_win = (1 :> 1) @@ (2 :> 5)
    /\ match_date = (1 :> 1) @@ (2 :> NoDate)
    /\ session["b1"].st = "open"
    /\ Len(Received("v1")) = 2

\* this step is a create_event command
CreateEventStep ==
    /\ Len(applied') = Len(applied) + 1
    /\ Last(applied').action = "create_event"

\* C32: create_event naming an existing frame succeeds, and every sequence
\* the timestamp-ordered query may give for that frame afterwards is a
\* sequence it might have given before with the new event at the end; the
\* events that existed are unchanged.
C32_CreateEventAppendsLast ==
    [][CreateEventStep =>
        \A f \in FrameIds, e \in EventInputs \cup ProjEventInputs, t \in 0..MaxClock :
            ReceiveCreateEvent("b1", e[1], e[2], f, t, FALSE) =>
                /\ Last(applied').ok
                /\ \A o \in DOMAIN events : o \in DOMAIN events' /\ events'[o] = events[o]
                /\ OrderedEvents(frames', events', f) =
                        {Append(q, next_event_id) : q \in OrderedEvents(frames, events, f)}]_vars

\* the frames event e is attached to
FramesOf(e) == {f \in FrameIds : e \in frames[f].events}

\* C33: every MatchEvent row is attached to exactly one Frame: to no two
\* frames, and to at least one.
C33_EventInExactlyOneFrame ==
    \A e \in DOMAIN events : Cardinality(FramesOf(e)) = 1

\* every sequence the timestamp-ordered query may give for a frame lists its
\* events in the order they were appended (ids are given in that order)
AppendOrder ==
    \A f \in FrameIds :
        \A q \in OrderedEvents(frames, events, f) :
            \A i \in 1..(Len(q) - 1) : q[i] < q[i + 1]

\* C34: listing a frame's events by timestamp gives them in the order they
\* were appended, events of equal timestamp included, and no command ends
\* that: a frame listed in append order is listed in append order after
\* every step.
C34_ListedInAppendOrder ==
    [][AppendOrder => AppendOrder']_vars

\* the frames of match m and their events in the rows st
MatchRows(st, m) ==
    [f \in {g \in 1..Len(st.frames) : st.frames[g].match = m} |->
        [frame |-> st.frames[f],
         events |-> [e \in st.frames[f].events \cap DOMAIN st.events |-> st.events[e]]]]

\* command i changed a frame of match m or an event of such a frame
ChangedMatch(i, m) == MatchRows(applied[i].before, m) # MatchRows(StoreAfter(i), m)

\* C35: a spectator that has got its match_state holds, sent or waiting in
\* its channel, a message of every command that changed its match after the
\* snapshot was read and has been handled to the end: what the snapshot does
\* not show is delivered.
C35_NoMissedUpdate ==
    \A t \in Spectators :
        session[t].st = "open" =>
            \A i \in (sent[t][1].cmd + 1)..Len(applied) :
                (ChangedMatch(i, session[t].match) /\ Answered(i)) =>
                    \E k \in 1..Len(Received(t)) : Received(t)[k].cmd = i

\* C36: a create_event that fails leaves the events and the frames as they
\* were, so a frame_id that names no frame leaves no new MatchEvent behind,
\* and when the failed command is handled to the end nothing is put into
\* any channel.
C36_FailedCreateLeavesNoEvent ==
    [][/\ (CreateEventStep /\ ~Last(applied').ok) =>
            events' = events /\ frames' = frames
       /\ \A s \in Biros :
            (/\ session[s].st = "busy" /\ session[s].pend.action = "create_event"
             /\ ~session[s].pend.ok /\ session'[s] # session[s]) => queue' = queue]_vars

C38_StoredEventImmutable ==
    [][/\ \A e \in DOMAIN events \cap DOMAIN events' : events'[e] = events[e]
       /\ \/ events' = events
          \/ /\ next_event_id \notin DOMAIN events
             /\ DOMAIN events' = DOMAIN events \cup {next_event_id}
          \/ /\ DOMAIN events' \subseteq DOMAIN events
             /\ DOMAIN events' # DOMAIN events]_vars

\* a create_event stored event 2 next to event 1, then a remove_event
\* deleted event 1: event 2 is stored as it was created
C38_Witness ==
    /\ Len(applied) = 2
    /\ applied[1].action = "create_event" /\ applied[1].ok
    /\ applied[2].action = "remove_event" /\ applied[2].ok
    /\ DOMAIN applied[2].before.events = {1, 2}
    /\ DOMAIN events = {2}
    /\ events[2] = applied[2].before.events[2]

\* C39: whatever events a frame holds, and in whatever order the query lists
\* those with equal timestamps, ballsOnTable names only object balls 1..15
\* and never the cue ball, and for a frame without a balls_potted event it
\* is the 15 object balls; this with ball_ids that name the cue ball, an id
\* no ball has, one id twice, or an id an earlier event potted.
C39_BallsOnTableAreObjectBalls ==
    \A f \in FrameIds :
        \A b \in BallsOnTable([frames |-> frames, events |-> events], f) :
            /\ SeqToSet(b) \subseteq SeqToSet(ObjectBalls)
            /\ "cue" \notin SeqToSet(b)
            /\ (\A e \in frames[f].events : events[e].eventType # BALLS_POTTED) =>
                    b = ObjectBalls

\* frame 1 holds three balls_potted events, one naming the cue ball, one
\* the id "16" and one the ball 1 twice: all object balls but 1 are listed
C39_Witness ==
    /\ Len(applied) = 2
    /\ Cardinality(frames[1].events) = 3
    /\ \A e \in frames[1].events : events[e].eventType = BALLS_POTTED
    /\ {events[e].ball_ids : e \in frames[1].events} = {<<"cue">>, <<"16">>, <<"1", "1">>}
    /\ BallsOnTable([frames |-> frames, events |-> events], 1) = {Tail(ObjectBalls)}

====
